---- MODULE Spec2Model ----
(***************************************************************************)
(* Room canvas of the inventory manager: placement of storage units and    *)
(* blocks inside a rectangular or L-shaped room, and the drag / resize     *)
(* gestures of RoomCanvas together with the create / edit handlers of      *)
(* RoomDetail.                                                             *)
(*                                                                         *)
(* Lengths are integers in millimetres (1 m = 1000), so the 0.01 m overlap *)
(* tolerance is 10 and the 0.1 m resize precision is 100.  SVG coordinates *)
(* are integers in 1/1000 of an SVG user unit.                             *)
(***************************************************************************)
EXTENDS Integers, FiniteSets, Sequences, TLC

VARIABLES
    role,           \* role of the logged-in user ("none" when nobody is)
    room,           \* currentRoom: width, height, shape, cutout
    units,          \* currentRoom.storage_units
    blocks,         \* currentRoom.blocks
    dragging,       \* RoomCanvas state `dragging`
    dragOffset,     \* RoomCanvas state `dragOffset`
    localPosition,  \* RoomCanvas state `localPosition`
    localSize,      \* RoomCanvas state `localSize`
    tick,           \* locals of the last handleMouseMove / form submit
    gestures,       \* number of gestures ended so far
    call,           \* last evaluation of a pure function: arguments and result
    door,           \* currentRoom: door_wall, door_position, door_width
    localDoorWall,      \* RoomCanvas state `localDoorWall`
    localDoorPosition,  \* RoomCanvas state `localDoorPosition`
    commits,        \* number of on...End / onResize callbacks called so far
    newRoom,        \* Rooms page state `newRoom` (shape part of the form)
    config,         \* LShapeEditor state `config` (null when not mounted)
    rooms,          \* roomStore.rooms: the rooms created so far
    token,          \* authStore `token`: the account it was issued to
    isLoading,      \* authStore `isLoading`
    accessToken,    \* localStorage item `access_token`
    requests,       \* authApi calls sent and not yet answered
    loggedOut,      \* logout() was called and login() not since
    server          \* units and blocks as the server stores them

vars == <<role, room, units, blocks, dragging, dragOffset, localPosition,
          localSize, tick, gestures, call, door, localDoorWall,
          localDoorPosition, commits, newRoom, config, rooms, token,
          isLoading, accessToken, requests, loggedOut, server>>

canvasVars == <<dragging, dragOffset, localPosition, localSize>>

doorVars == <<door, localDoorWall, localDoorPosition>>

formVars == <<newRoom, config, rooms>>

authVars == <<token, isLoading, accessToken, requests, loggedOut>>

----------------------------------------------------------------------------
(* Bounds of the model *)

MaxGestures == 1
MaxUnits == 2
MaxBlocks == 2

----------------------------------------------------------------------------
(* Constants of the program *)

tolerance == 10
canvasWidth == 800
canvasHeight == 600
minSize == 500
margin == 500

Min(a, b) == IF a < b THEN a ELSE b
Max(a, b) == IF a > b THEN a ELSE b

Corners == {"top_left", "top_right", "bottom_left", "bottom_right"}
Walls == {"north", "south", "east", "west", "cutout_horizontal", "cutout_vertical"}

----------------------------------------------------------------------------
(* Pure geometry *)

rectanglesOverlapStrict(x1, y1, w1, h1, x2, y2, w2, h2) ==
    /\ x1 < x2 + w2
    /\ x1 + w1 > x2
    /\ y1 < y2 + h2
    /\ y1 + h1 > y2

rectanglesOverlapOneSided(x1, y1, w1, h1, x2, y2, w2, h2) ==
    /\ x1 < x2 + w2 - tolerance
    /\ x1 + w1 > x2
    /\ y1 < y2 + h2 - tolerance
    /\ y1 + h1 > y2

rectanglesOverlap(x1, y1, w1, h1, x2, y2, w2, h2) ==
    /\ x1 < x2 + w2 - tolerance
    /\ x1 + w1 > x2 + tolerance
    /\ y1 < y2 + h2 - tolerance
    /\ y1 + h1 > y2 + tolerance

cutoutRectMirrored(roomWidth, roomHeight, cw, ch, cutoutCorner) ==
    CASE cutoutCorner = "top_right" ->
           [x1 |-> roomWidth - cw, y1 |-> 0, x2 |-> roomWidth, y2 |-> ch]
      [] cutoutCorner = "top_left" ->
           [x1 |-> 0, y1 |-> 0, x2 |-> cw, y2 |-> ch]
      [] cutoutCorner = "bottom_right" ->
           [x1 |-> 0, y1 |-> roomHeight - ch, x2 |-> cw, y2 |-> roomHeight]
      [] cutoutCorner = "bottom_left" ->
           [x1 |-> 0, y1 |-> roomHeight - ch, x2 |-> cw, y2 |-> roomHeight]
      [] OTHER -> [x1 |-> 0, y1 |-> 0, x2 |-> 0, y2 |-> 0]

\* The cutout rectangle chosen by the switch of isInsideRoom.
cutoutRect(roomWidth, roomHeight, cw, ch, cutoutCorner) ==
    CASE cutoutCorner = "top_right" ->
           [x1 |-> roomWidth - cw, y1 |-> 0, x2 |-> roomWidth, y2 |-> ch]
      [] cutoutCorner = "top_left" ->
           [x1 |-> 0, y1 |-> 0, x2 |-> cw, y2 |-> ch]
      [] cutoutCorner = "bottom_right" ->
           [x1 |-> roomWidth - cw, y1 |-> roomHeight - ch,
            x2 |-> roomWidth, y2 |-> roomHeight]
      [] cutoutCorner = "bottom_left" ->
           [x1 |-> 0, y1 |-> roomHeight - ch, x2 |-> cw, y2 |-> roomHeight]
      [] OTHER -> [x1 |-> 0, y1 |-> 0, x2 |-> 0, y2 |-> 0]

isInsideRoomTolerant(x, y, width, height, roomWidth, roomHeight, shape, cutoutWidth, cutoutHeight, cutoutCorner) ==
    IF x < 0 \/ y < 0 \/ x + width > roomWidth \/ y + height > roomHeight
    THEN FALSE
    ELSE IF shape = "rectangle" \/ cutoutWidth = 0 \/ cutoutHeight = 0
            \/ cutoutCorner = "none"
    THEN TRUE
    ELSE LET c == cutoutRect(roomWidth, roomHeight, cutoutWidth,
                             cutoutHeight, cutoutCorner)
         IN ~rectanglesOverlap(x, y, width, height,
                               c.x1, c.y1, c.x2 - c.x1, c.y2 - c.y1)

\* A missing number (null / undefined) is 0 and a missing corner is "none":
\* the code tests all of them for falsiness only.
isInsideRoom(x, y, width, height, roomWidth, roomHeight, shape, cutoutWidth, cutoutHeight, cutoutCorner) ==
    IF x < 0 \/ y < 0 \/ x + width > roomWidth \/ y + height > roomHeight
    THEN FALSE
    ELSE IF shape = "rectangle" \/ cutoutWidth = 0 \/ cutoutHeight = 0
            \/ cutoutCorner = "none"
    THEN TRUE
    ELSE LET c == cutoutRect(roomWidth, roomHeight, cutoutWidth,
                             cutoutHeight, cutoutCorner)
             overlapsWithCutout ==
                 /\ x < c.x2 /\ x + width > c.x1
                 /\ y < c.y2 /\ y + height > c.y1
         IN ~overlapsWithCutout

----------------------------------------------------------------------------
(* Canvas scale and offsets (RoomCanvas) *)

scaleOf(roomWidth, roomHeight) ==
    (Min((canvasWidth * 1000) \div roomWidth,
         (canvasHeight * 1000) \div roomHeight) * 85) \div 100

offsetXOf(roomWidth, roomHeight) ==
    (canvasWidth * 1000 - roomWidth * scaleOf(roomWidth, roomHeight)) \div 2

offsetYOf(roomWidth, roomHeight) ==
    (canvasHeight * 1000 - roomHeight * scaleOf(roomWidth, roomHeight)) \div 2

----------------------------------------------------------------------------
(* Wall length / offset tables *)

isLShapeOf(shape, cutoutWidth, cutoutHeight, cutoutCorner) ==
    shape = "l_shape" /\ cutoutWidth # 0 /\ cutoutHeight # 0
    /\ cutoutCorner # "none"

\* Door component: wallLength and wallOffset in scaled units, and the
\* coordinate `at` of the wall's line (hingeY or hingeX of the wall).
DoorWallSwapped(wall, roomWidth, roomHeight, scale, shape, cutoutWidth, cutoutHeight, cutoutCorner) ==
    LET rw == roomWidth * scale
        rh == roomHeight * scale
        cw == cutoutWidth * scale
        ch == cutoutHeight * scale
        isLShape == isLShapeOf(shape, cutoutWidth, cutoutHeight, cutoutCorner)
    IN CASE wall = "north" ->
              IF isLShape /\ cutoutCorner \in {"top_left", "top_right"}
              THEN [wallLength |-> rw - cw,
                    wallOffset |-> IF cutoutCorner = "top_right" THEN cw ELSE 0,
                    at |-> 0]
              ELSE [wallLength |-> rw, wallOffset |-> 0, at |-> 0]
         [] wall = "south" ->
              IF isLShape /\ cutoutCorner \in {"bottom_left", "bottom_right"}
              THEN [wallLength |-> rw - cw,
                    wallOffset |-> IF cutoutCorner = "bottom_left" THEN cw ELSE 0,
                    at |-> rh]
              ELSE [wallLength |-> rw, wallOffset |-> 0, at |-> rh]
         [] wall = "east" ->
              IF isLShape /\ cutoutCorner \in {"top_right", "bottom_right"}
              THEN [wallLength |-> rh - ch,
                    wallOffset |-> IF cutoutCorner = "top_right" THEN ch ELSE 0,
                    at |-> rw]
              ELSE [wallLength |-> rh, wallOffset |-> 0, at |-> rw]
         [] wall = "west" ->
              IF isLShape /\ cutoutCorner \in {"top_left", "bottom_left"}
              THEN [wallLength |-> rh - ch,
                    wallOffset |-> IF cutoutCorner = "top_left" THEN ch ELSE 0,
                    at |-> 0]
              ELSE [wallLength |-> rh, wallOffset |-> 0, at |-> 0]
         [] wall = "cutout_horizontal" ->
              IF ~isLShape
              THEN [wallLength |-> 0, wallOffset |-> 0, at |-> 0]
              ELSE [wallLength |-> cw,
                    wallOffset |-> IF cutoutCorner \in {"top_left", "bottom_left"}
                                   THEN 0 ELSE rw - cw,
                    at |-> IF cutoutCorner \in {"top_left", "top_right"}
                           THEN ch ELSE rh - ch]
         [] wall = "cutout_vertical" ->
              IF ~isLShape
              THEN [wallLength |-> 0, wallOffset |-> 0, at |-> 0]
              ELSE [wallLength |-> ch,
                    wallOffset |-> IF cutoutCorner \in {"top_left", "top_right"}
                                   THEN 0 ELSE rh - ch,
                    at |-> IF cutoutCorner \in {"top_left", "bottom_left"}
                           THEN cw ELSE rw - cw]

DoorWall(wall, roomWidth, roomHeight, scale, shape, cutoutWidth, cutoutHeight, cutoutCorner) ==
    LET rw == roomWidth * scale
        rh == roomHeight * scale
        cw == cutoutWidth * scale
        ch == cutoutHeight * scale
        isLShape == isLShapeOf(shape, cutoutWidth, cutoutHeight, cutoutCorner)
    IN CASE wall = "north" ->
              IF isLShape /\ cutoutCorner \in {"top_left", "top_right"}
              THEN [wallLength |-> rw - cw,
                    wallOffset |-> IF cutoutCorner = "top_left" THEN cw ELSE 0,
                    at |-> 0]
              ELSE [wallLength |-> rw, wallOffset |-> 0, at |-> 0]
         [] wall = "south" ->
              IF isLShape /\ cutoutCorner \in {"bottom_left", "bottom_right"}
              THEN [wallLength |-> rw - cw,
                    wallOffset |-> IF cutoutCorner = "bottom_left" THEN cw ELSE 0,
                    at |-> rh]
              ELSE [wallLength |-> rw, wallOffset |-> 0, at |-> rh]
         [] wall = "east" ->
              IF isLShape /\ cutoutCorner \in {"top_right", "bottom_right"}
              THEN [wallLength |-> rh - ch,
                    wallOffset |-> IF cutoutCorner = "top_right" THEN ch ELSE 0,
                    at |-> rw]
              ELSE [wallLength |-> rh, wallOffset |-> 0, at |-> rw]
         [] wall = "west" ->
              IF isLShape /\ cutoutCorner \in {"top_left", "bottom_left"}
              THEN [wallLength |-> rh - ch,
                    wallOffset |-> IF cutoutCorner = "top_left" THEN ch ELSE 0,
                    at |-> 0]
              ELSE [wallLength |-> rh, wallOffset |-> 0, at |-> 0]
         [] wall = "cutout_horizontal" ->
              IF ~isLShape
              THEN [wallLength |-> 0, wallOffset |-> 0, at |-> 0]
              ELSE [wallLength |-> cw,
                    wallOffset |-> IF cutoutCorner \in {"top_left", "bottom_left"}
                                   THEN 0 ELSE rw - cw,
                    at |-> IF cutoutCorner \in {"top_left", "top_right"}
                           THEN ch ELSE rh - ch]
         [] wall = "cutout_vertical" ->
              IF ~isLShape
              THEN [wallLength |-> 0, wallOffset |-> 0, at |-> 0]
              ELSE [wallLength |-> ch,
                    wallOffset |-> IF cutoutCorner \in {"top_left", "top_right"}
                                   THEN 0 ELSE rh - ch,
                    at |-> IF cutoutCorner \in {"top_left", "bottom_left"}
                           THEN cw ELSE rw - cw]

\* A wall table that measures every perimeter wall over the full side of
\* the bounding box.
MoveWallFullSides(wall, roomWidth, roomHeight, scale, shape, cutoutWidth, cutoutHeight, cutoutCorner) ==
    LET rw == roomWidth * scale
        rh == roomHeight * scale
        cw == cutoutWidth * scale
        ch == cutoutHeight * scale
    IN CASE wall = "north" -> [wallLength |-> rw, wallOffset |-> 0, at |-> 0]
         [] wall = "south" -> [wallLength |-> rw, wallOffset |-> 0, at |-> rh]
         [] wall = "west" -> [wallLength |-> rh, wallOffset |-> 0, at |-> 0]
         [] wall = "east" -> [wallLength |-> rh, wallOffset |-> 0, at |-> rw]
         [] wall = "cutout_horizontal" ->
              [wallLength |-> cw,
               wallOffset |-> IF cutoutCorner \in {"top_left", "bottom_left"}
                              THEN 0 ELSE rw - cw,
               at |-> IF cutoutCorner \in {"top_left", "top_right"}
                      THEN ch ELSE rh - ch]
         [] wall = "cutout_vertical" ->
              [wallLength |-> ch,
               wallOffset |-> IF cutoutCorner \in {"top_left", "top_right"}
                              THEN 0 ELSE rh - ch,
               at |-> IF cutoutCorner \in {"top_left", "bottom_left"}
                      THEN cw ELSE rw - cw]

\* handleMouseMove, door branch: wallLengthScaled and wallOffsetScaled of
\* the switch on newWall, and the line of a cutout wall (cutoutHY, cutoutVX)
\* as the distance computation places it.
MoveWall(wall, roomWidth, roomHeight, scale, shape, cutoutWidth, cutoutHeight, cutoutCorner) ==
    LET rw == roomWidth * scale
        rh == roomHeight * scale
        cw == cutoutWidth * scale
        ch == cutoutHeight * scale
        isLShape == isLShapeOf(shape, cutoutWidth, cutoutHeight, cutoutCorner)
    IN CASE wall = "north" ->
              IF isLShape /\ cutoutCorner \in {"top_left", "top_right"}
              THEN [wallLength |-> rw - cw,
                    wallOffset |-> IF cutoutCorner = "top_left" THEN cw ELSE 0,
                    at |-> 0]
              ELSE [wallLength |-> rw, wallOffset |-> 0, at |-> 0]
         [] wall = "south" ->
              IF isLShape /\ cutoutCorner \in {"bottom_left", "bottom_right"}
              THEN [wallLength |-> rw - cw,
                    wallOffset |-> IF cutoutCorner = "bottom_left" THEN cw ELSE 0,
                    at |-> rh]
              ELSE [wallLength |-> rw, wallOffset |-> 0, at |-> rh]
         [] wall = "west" ->
              IF isLShape /\ cutoutCorner \in {"top_left", "bottom_left"}
              THEN [wallLength |-> rh - ch,
                    wallOffset |-> IF cutoutCorner = "top_left" THEN ch ELSE 0,
                    at |-> 0]
              ELSE [wallLength |-> rh, wallOffset |-> 0, at |-> 0]
         [] wall = "east" ->
              IF isLShape /\ cutoutCorner \in {"top_right", "bottom_right"}
              THEN [wallLength |-> rh - ch,
                    wallOffset |-> IF cutoutCorner = "top_right" THEN ch ELSE 0,
                    at |-> rw]
              ELSE [wallLength |-> rh, wallOffset |-> 0, at |-> rw]
         [] wall = "cutout_horizontal" ->
              [wallLength |-> cw,
               wallOffset |-> IF cutoutCorner \in {"top_left", "bottom_left"}
                              THEN 0 ELSE rw - cw,
               at |-> IF cutoutCorner \in {"top_left", "top_right"}
                      THEN ch ELSE rh - ch]
         [] wall = "cutout_vertical" ->
              [wallLength |-> ch,
               wallOffset |-> IF cutoutCorner \in {"top_left", "top_right"}
                              THEN 0 ELSE rh - ch,
               at |-> IF cutoutCorner \in {"top_left", "bottom_left"}
                      THEN cw ELSE rw - cw]

----------------------------------------------------------------------------
(* Door placement: nearest wall, normalized position, clamp *)

Abs(n) == IF n < 0 THEN -n ELSE n

RECURSIVE Gcd(_, _)
Gcd(a, b) == IF b = 0 THEN a ELSE Gcd(b, a % b)

\* The number n / d (d # 0) in lowest terms with a positive denominator.
Frac(n, d) ==
    LET s == IF d < 0 THEN -1 ELSE 1
        g == Gcd(Abs(n), Abs(d))
    IN [num |-> (s * n) \div g, den |-> (s * d) \div g]

FracLess(p, q) == p.num * q.den < q.num * p.den
FracLeq(p, q) == p.num * q.den <= q.num * p.den
FracAdd(p, q) == Frac(p.num * q.den + q.num * p.den, p.den * q.den)
FracSub(p, q) == Frac(p.num * q.den - q.num * p.den, p.den * q.den)
FracMin(p, q) == IF FracLess(q, p) THEN q ELSE p
FracMax(p, q) == IF FracLess(p, q) THEN q ELSE p

\* A distance of handleMouseMove: a signed length (the perimeter walls),
\* the square root of v (the cutout walls), or Infinity.
Lin(v) == [kind |-> "lin", v |-> v]
Sqrt(v) == [kind |-> "sqrt", v |-> v]
Infinity == [kind |-> "inf", v |-> 0]

\* a < b on distances
distLess(a, b) ==
    CASE a.kind = "inf" -> FALSE
      [] b.kind = "inf" -> TRUE
      [] a.kind = "lin" /\ b.kind = "lin" -> a.v < b.v
      [] a.kind = "lin" /\ b.kind = "sqrt" -> a.v < 0 \/ a.v * a.v < b.v
      [] a.kind = "sqrt" /\ b.kind = "lin" -> b.v > 0 /\ a.v < b.v * b.v
      [] OTHER -> a.v < b.v

\* allDistances with the cutout walls measured in every room.
allDistancesAlways(localX, localY, rw, rh, cw, ch, isLShape, shapeCutoutCorner) ==
    LET top == shapeCutoutCorner \in {"top_left", "top_right"}
        left == shapeCutoutCorner \in {"top_left", "bottom_left"}
        cutoutHY == IF top THEN ch ELSE rh - ch
        cutoutHStartX == IF left THEN 0 ELSE rw - cw
        clampedHX == Max(cutoutHStartX, Min(cutoutHStartX + cw, localX))
        cutoutVX == IF left THEN cw ELSE rw - cw
        cutoutVStartY == IF top THEN 0 ELSE rh - ch
        clampedVY == Max(cutoutVStartY, Min(cutoutVStartY + ch, localY))
    IN << [wall |-> "north", dist |-> Lin(localY)],
          [wall |-> "south", dist |-> Lin(rh - localY)],
          [wall |-> "west", dist |-> Lin(localX)],
          [wall |-> "east", dist |-> Lin(rw - localX)],
          [wall |-> "cutout_horizontal",
           dist |-> Sqrt((localX - clampedHX) * (localX - clampedHX)
                         + (localY - cutoutHY) * (localY - cutoutHY))],
          [wall |-> "cutout_vertical",
           dist |-> Sqrt((localX - cutoutVX) * (localX - cutoutVX)
                         + (localY - clampedVY) * (localY - clampedVY))] >>

\* handleMouseMove, door branch: distToNorth .. distToCutoutV in the order
\* of allDistances.
allDistances(localX, localY, rw, rh, cw, ch, isLShape, shapeCutoutCorner) ==
    LET top == shapeCutoutCorner \in {"top_left", "top_right"}
        left == shapeCutoutCorner \in {"top_left", "bottom_left"}
        cutoutHY == IF top THEN ch ELSE rh - ch
        cutoutHStartX == IF left THEN 0 ELSE rw - cw
        cutoutHEndX == cutoutHStartX + cw
        clampedHX == Max(cutoutHStartX, Min(cutoutHEndX, localX))
        dxH == localX - clampedHX
        dyH == localY - cutoutHY
        cutoutVX == IF left THEN cw ELSE rw - cw
        cutoutVStartY == IF top THEN 0 ELSE rh - ch
        cutoutVEndY == cutoutVStartY + ch
        clampedVY == Max(cutoutVStartY, Min(cutoutVEndY, localY))
        dxV == localX - cutoutVX
        dyV == localY - clampedVY
        distToCutoutH == IF isLShape THEN Sqrt(dxH * dxH + dyH * dyH)
                         ELSE Infinity
        distToCutoutV == IF isLShape THEN Sqrt(dxV * dxV + dyV * dyV)
                         ELSE Infinity
    IN << [wall |-> "north", dist |-> Lin(localY)],
          [wall |-> "south", dist |-> Lin(rh - localY)],
          [wall |-> "west", dist |-> Lin(localX)],
          [wall |-> "east", dist |-> Lin(rw - localX)],
          [wall |-> "cutout_horizontal", dist |-> distToCutoutH],
          [wall |-> "cutout_vertical", dist |-> distToCutoutV] >>

\* allDistances.reduce((min, curr) => curr.dist < min.dist ? curr : min)
closest(distances) ==
    LET min[i \in 1..Len(distances)] ==
            IF i = 1 THEN distances[1]
            ELSE IF distLess(distances[i].dist, min[i - 1].dist)
                 THEN distances[i] ELSE min[i - 1]
    IN min[Len(distances)]

\* The coordinate of the pointer that runs along the wall.
alongWall(wall, localX, localY) ==
    IF wall \in {"north", "south", "cutout_horizontal"} THEN localX ELSE localY

\* newPos of the switch on newWall
normalizePosition(along, wallOffsetScaled, wallLengthScaled) ==
    Frac(along - wallOffsetScaled, wallLengthScaled)

\* The two bounds of the clamp: doorW / 2 + 0.02 and 1 - doorW / 2 - 0.02,
\* doorW = (doorWidth || 1) / (wallLengthScaled / scale).
clampBounds(doorWidth, wallLengthScaled, s) ==
    LET doorW == Frac((IF doorWidth # 0 THEN doorWidth ELSE 1000) * s,
                      wallLengthScaled)
        half == Frac(doorW.num, 2 * doorW.den)
    IN [lo |-> FracAdd(half, Frac(2, 100)),
        hi |-> FracSub(FracSub(Frac(1, 1), half), Frac(2, 100))]

\* Math.max(doorW / 2 + 0.02, Math.min(1 - doorW / 2 - 0.02, newPos))
clampPosition(newPos, doorWidth, wallLengthScaled, s) ==
    LET b == clampBounds(doorWidth, wallLengthScaled, s)
    IN FracMax(b.lo, FracMin(b.hi, newPos))

----------------------------------------------------------------------------
(* Roles (authStore) *)

\* A hierarchy that ranks the editor with the viewer.
roleHierarchyFlat == [viewer |-> 1, editor |-> 1, admin |-> 2]

roleHierarchy == [viewer |-> 0, editor |-> 1, admin |-> 2]

hasRole(r) ==
    IF role = "none" THEN FALSE ELSE roleHierarchy[role] >= roleHierarchy[r]

\* An edit check that lets everyone through.
canEditAnyone == TRUE

canEdit == hasRole("editor")

isAdmin == hasRole("admin")

\* isAuthenticated
isAuthenticated == role # "none" /\ token # "none"

----------------------------------------------------------------------------
(* State of the canvas *)

NoDrag == [type |-> "none", id |-> "none", startX |-> 0, startY |-> 0,
           startWidth |-> 0, startHeight |-> 0]
NoPosition == [id |-> "none", x |-> 0, y |-> 0]
NoSize == [id |-> "none", width |-> 0, height |-> 0]
NoTick == [op |-> "none", kind |-> "none", id |-> "none",
           cur |-> <<0, 0>>, prop |-> <<0, 0>>, out |-> <<0, 0>>]
NoCall == [fn |-> "none"]

\* A normalized door position is the fraction num / den in lowest terms;
\* null is written with den = 0.
NoDoorPosition == [num |-> 0, den |-> 0]
NoDoor == [wall |-> "none", position |-> NoDoorPosition, width |-> 0]

\* The shape part of `newRoom` as the Rooms page initialises it, and the
\* LShapeEditor that is not mounted.
DefaultNewRoom == [width |-> 10000, height |-> 10000, shape |-> "rectangle", cw |-> 0, ch |-> 0, corner |-> "none"]
NoConfig == [orientation |-> "none", verticalLegWidth |-> 0, verticalLegHeight |-> 0, horizontalLegWidth |-> 0, horizontalLegHeight |-> 0]

roomWidth == room.width
roomHeight == room.height
scale == scaleOf(roomWidth, roomHeight)
offsetX == offsetXOf(roomWidth, roomHeight)
offsetY == offsetYOf(roomWidth, roomHeight)

Rect(id, x, y, w, h) == [id |-> id, x |-> x, y |-> y, width |-> w, height |-> h]

\* Inputs: where the pointer can be (room millimetres, converted to SVG
\* coordinates by SvgPoint), and where inside a rectangle it is pressed.
PointerXs == {500, 5500, 11500}
PointerYs == {2500, 5500, 11500}
ResizePointerCoords == {1000, 3000, 3050, 12000}
Grabs == {500}

SvgPoint(mx, my) == [x |-> offsetX + mx * scale, y |-> offsetY + my * scale]

----------------------------------------------------------------------------
(* Validity of a candidate, as the drag branches of handleMouseMove test it *)

isValidPositionUnitAll(unit, x, y) ==
    IF ~isInsideRoom(x, y, unit.width, unit.height, roomWidth, roomHeight,
                     room.shape, room.cw, room.ch, room.corner)
    THEN FALSE
    ELSE LET collidesWithUnit == \E other \in units :
                 rectanglesOverlap(x, y, unit.width, unit.height,
                                   other.x, other.y, other.width, other.height)
             collidesWithBlock == \E block \in blocks :
                 rectanglesOverlap(x, y, unit.width, unit.height,
                                   block.x, block.y, block.width, block.height)
         IN ~collidesWithUnit /\ ~collidesWithBlock

isValidPositionUnit(unit, x, y) ==
    IF ~isInsideRoom(x, y, unit.width, unit.height, roomWidth, roomHeight,
                     room.shape, room.cw, room.ch, room.corner)
    THEN FALSE
    ELSE LET collidesWithUnit == \E other \in units :
                 /\ other.id # unit.id
                 /\ rectanglesOverlap(x, y, unit.width, unit.height,
                                      other.x, other.y, other.width, other.height)
             collidesWithBlock == \E block \in blocks :
                 rectanglesOverlap(x, y, unit.width, unit.height,
                                   block.x, block.y, block.width, block.height)
         IN ~collidesWithUnit /\ ~collidesWithBlock

\* A block validity that looks at the other blocks only.
isValidPositionBlockOnly(block, x, y) ==
    IF ~isInsideRoom(x, y, block.width, block.height, roomWidth, roomHeight,
                     room.shape, room.cw, room.ch, room.corner)
    THEN FALSE
    ELSE ~\E other \in blocks :
             /\ other.id # block.id
             /\ rectanglesOverlap(x, y, block.width, block.height,
                                  other.x, other.y, other.width, other.height)

isValidPositionBlock(block, x, y) ==
    IF ~isInsideRoom(x, y, block.width, block.height, roomWidth, roomHeight,
                     room.shape, room.cw, room.ch, room.corner)
    THEN FALSE
    ELSE LET collidesWithBlock == \E other \in blocks :
                 /\ other.id # block.id
                 /\ rectanglesOverlap(x, y, block.width, block.height,
                                      other.x, other.y, other.width, other.height)
             collidesWithUnit == \E u \in units :
                 rectanglesOverlap(x, y, block.width, block.height,
                                   u.x, u.y, u.width, u.height)
         IN ~collidesWithBlock /\ ~collidesWithUnit

\* Final position of a drag tick: validFull, validX and validY are the results
\* of isValidPosition at (clampedX, clampedY), (clampedX, currentY) and
\* (currentX, clampedY).  The two single-axis attempts are independent `if`s.
dragFinal(validFull, validX, validY, currentX, currentY, clampedX, clampedY) ==
    IF validFull
    THEN <<clampedX, clampedY>>
    ELSE <<IF validX THEN clampedX ELSE currentX,
           IF validY THEN clampedY ELSE currentY>>

\* Math.round(v * 10) / 10 on millimetres: nearest 100, halves up.
round01(v) == ((v + 50) \div 100) * 100

collides(kind, element, w, h) ==
    IF kind = "resize-unit"
    THEN \/ \E other \in units :
              /\ other.id # element.id
              /\ rectanglesOverlap(element.x, element.y, w, h,
                                   other.x, other.y, other.width, other.height)
         \/ \E block \in blocks :
              rectanglesOverlap(element.x, element.y, w, h,
                                block.x, block.y, block.width, block.height)
    ELSE \/ \E other \in blocks :
              /\ other.id # element.id
              /\ rectanglesOverlap(element.x, element.y, w, h,
                                   other.x, other.y, other.width, other.height)
         \/ \E unit \in units :
              rectanglesOverlap(element.x, element.y, w, h,
                                unit.x, unit.y, unit.width, unit.height)

\* A proposal that is floored and rounded but not capped.
resizeProposalNoCap(element, deltaX, deltaY, startWidth, startHeight) ==
    <<round01(Max(minSize, startWidth + deltaX)),
      round01(Max(minSize, startHeight + deltaY))>>

\* Size proposed by a resize tick after floor, rounding and cap.
resizeProposal(element, deltaX, deltaY, startWidth, startHeight) ==
    LET w0 == round01(Max(minSize, startWidth + deltaX))
        h0 == round01(Max(minSize, startHeight + deltaY))
    IN <<Min(w0, roomWidth - element.x), Min(h0, roomHeight - element.y)>>

\* Size committed by a resize tick for the proposal <<w, h>>.
resizeFinalNoCollision(kind, element, w, h) ==
    LET keepW == IF localSize.id # "none" /\ localSize.width # 0
                 THEN localSize.width ELSE element.width
        keepH == IF localSize.id # "none" /\ localSize.height # 0
                 THEN localSize.height ELSE element.height
        inside == isInsideRoom(element.x, element.y, w, h, roomWidth,
                               roomHeight, room.shape, room.cw, room.ch,
                               room.corner)
    IN IF inside THEN <<w, h>> ELSE <<keepW, keepH>>

resizeFinalWidthOnly(kind, element, w, h) ==
    LET keepW == IF localSize.id # "none" /\ localSize.width # 0
                 THEN localSize.width ELSE element.width
        keepH == IF localSize.id # "none" /\ localSize.height # 0
                 THEN localSize.height ELSE element.height
        inside == isInsideRoom(element.x, element.y, w, h, roomWidth,
                               roomHeight, room.shape, room.cw, room.ch,
                               room.corner)
        w1 == IF inside THEN w ELSE keepW
        h1 == IF inside THEN h ELSE keepH
    IN IF collides(kind, element, w1, h1)
       THEN IF ~collides(kind, element, keepW, h1)
            THEN <<keepW, h1>> ELSE <<keepW, keepH>>
       ELSE <<w1, h1>>

\* A resolution that falls back to the size at the start of the gesture.
resizeFinalFromStart(kind, element, w, h) ==
    LET keepW == dragging.startWidth
        keepH == dragging.startHeight
        inside == isInsideRoom(element.x, element.y, w, h, roomWidth,
                               roomHeight, room.shape, room.cw, room.ch,
                               room.corner)
        w1 == IF inside THEN w ELSE keepW
        h1 == IF inside THEN h ELSE keepH
    IN IF collides(kind, element, w1, h1)
       THEN <<keepW, keepH>>
       ELSE <<w1, h1>>

resizeFinal(kind, element, w, h) ==
    LET keepW == IF localSize.id # "none" /\ localSize.width # 0
                 THEN localSize.width ELSE element.width
        keepH == IF localSize.id # "none" /\ localSize.height # 0
                 THEN localSize.height ELSE element.height
        inside == isInsideRoom(element.x, element.y, w, h, roomWidth,
                               roomHeight, room.shape, room.cw, room.ch,
                               room.corner)
        w1 == IF inside THEN w ELSE keepW
        h1 == IF inside THEN h ELSE keepH
    IN IF collides(kind, element, w1, h1)
       THEN <<keepW, keepH>>
       ELSE <<w1, h1>>

----------------------------------------------------------------------------
(* What RoomCanvas draws *)

\* getRoomPath: the vertices of the path, in SVG units from the room origin
getRoomPath(width, height, sc, shape, cutoutWidth, cutoutHeight, cutoutCorner) ==
    LET w == width * sc
        h == height * sc
        cw == cutoutWidth * sc
        ch == cutoutHeight * sc
    IN IF shape = "rectangle" \/ cutoutWidth = 0 \/ cutoutHeight = 0
       THEN << <<0, 0>>, <<w, 0>>, <<w, h>>, <<0, h>> >>
       ELSE CASE cutoutCorner = "top_right" ->
                   << <<0, 0>>, <<w - cw, 0>>, <<w - cw, ch>>, <<w, ch>>, <<w, h>>, <<0, h>> >>
              [] cutoutCorner = "top_left" ->
                   << <<cw, 0>>, <<w, 0>>, <<w, h>>, <<0, h>>, <<0, ch>>, <<cw, ch>> >>
              [] cutoutCorner = "bottom_right" ->
                   << <<0, 0>>, <<w, 0>>, <<w, h - ch>>, <<w - cw, h - ch>>, <<w - cw, h>>, <<0, h>> >>
              [] cutoutCorner = "bottom_left" ->
                   << <<0, 0>>, <<w, 0>>, <<w, h>>, <<cw, h>>, <<cw, h - ch>>, <<0, h - ch>> >>
              [] OTHER ->
                   << <<0, 0>>, <<w - cw, 0>>, <<w - cw, ch>>, <<w, ch>>, <<w, h>>, <<0, h>> >>

\* A unit drawn at the local position whatever is being dragged.
displayUnitLoose(unit) ==
    [x |-> IF localPosition.id # "none" THEN localPosition.x ELSE unit.x,
     y |-> IF localPosition.id # "none" THEN localPosition.y ELSE unit.y,
     width |-> unit.width, height |-> unit.height]

\* displayX, displayY, displayWidth, displayHeight of units.map
displayUnit(unit) ==
    LET isDraggingUnit == dragging.type = "unit" /\ dragging.id = unit.id
        isResizing == dragging.type = "resize-unit" /\ dragging.id = unit.id
    IN [x |-> IF isDraggingUnit /\ localPosition.id = unit.id THEN localPosition.x ELSE unit.x,
        y |-> IF isDraggingUnit /\ localPosition.id = unit.id THEN localPosition.y ELSE unit.y,
        width |-> IF isResizing /\ localSize.id = unit.id THEN localSize.width ELSE unit.width,
        height |-> IF isResizing /\ localSize.id = unit.id THEN localSize.height ELSE unit.height]

\* displayX, displayY, displayWidth, displayHeight of blocks.map
displayBlock(block) ==
    LET isDraggingBlock == dragging.type = "block" /\ dragging.id = block.id
        isResizing == dragging.type = "resize-block" /\ dragging.id = block.id
    IN [x |-> IF isDraggingBlock /\ localPosition.id = block.id THEN localPosition.x ELSE block.x,
        y |-> IF isDraggingBlock /\ localPosition.id = block.id THEN localPosition.y ELSE block.y,
        width |-> IF isResizing /\ localSize.id = block.id THEN localSize.width ELSE block.width,
        height |-> IF isResizing /\ localSize.id = block.id THEN localSize.height ELSE block.height]

\* wall and position handed to the Door component
displayDoor ==
    [wall |-> IF localDoorWall # "none" THEN localDoorWall ELSE door.wall,
     position |-> IF localDoorPosition # NoDoorPosition THEN localDoorPosition ELSE door.position]

----------------------------------------------------------------------------
(* Handlers of RoomCanvas *)

handleUnitMouseDown ==
    \E unit \in units, gx \in Grabs, gy \in Grabs :
        /\ canEdit
        /\ dragging.type = "none"
        /\ gestures < MaxGestures
        /\ gx <= unit.width /\ gy <= unit.height
        /\ LET svgP == SvgPoint(unit.x + gx, unit.y + gy)
           IN /\ dragging' = [NoDrag EXCEPT !.type = "unit", !.id = unit.id]
              /\ dragOffset' = [x |-> svgP.x - offsetX - unit.x * scale,
                                y |-> svgP.y - offsetY - unit.y * scale]
              /\ localPosition' = [id |-> unit.id, x |-> unit.x, y |-> unit.y]
        /\ tick' = NoTick
        /\ UNCHANGED <<role, room, units, blocks, localSize, gestures, call, doorVars, commits, formVars,
                       authVars, server>>

handleBlockMouseDown ==
    \E block \in blocks, gx \in Grabs, gy \in Grabs :
        /\ canEdit
        /\ dragging.type = "none"
        /\ gestures < MaxGestures
        /\ gx <= block.width /\ gy <= block.height
        /\ LET svgP == SvgPoint(block.x + gx, block.y + gy)
           IN /\ dragging' = [NoDrag EXCEPT !.type = "block", !.id = block.id]
              /\ dragOffset' = [x |-> svgP.x - offsetX - block.x * scale,
                                y |-> svgP.y - offsetY - block.y * scale]
              /\ localPosition' = [id |-> block.id, x |-> block.x, y |-> block.y]
        /\ tick' = NoTick
        /\ UNCHANGED <<role, room, units, blocks, localSize, gestures, call, doorVars, commits, formVars,
                       authVars, server>>

\* The handle is pressed at its centre, the bottom-right corner.
handleUnitResizeMouseDown ==
    \E unit \in units :
        /\ canEdit
        /\ dragging.type = "none"
        /\ gestures < MaxGestures
        /\ LET svgP == SvgPoint(unit.x + unit.width, unit.y + unit.height)
           IN dragging' = [type |-> "resize-unit", id |-> unit.id,
                           startX |-> svgP.x, startY |-> svgP.y,
                           startWidth |-> unit.width,
                           startHeight |-> unit.height]
        /\ localSize' = [id |-> unit.id, width |-> unit.width,
                         height |-> unit.height]
        /\ tick' = NoTick
        /\ UNCHANGED <<role, room, units, blocks, dragOffset, localPosition,
                       gestures, call, doorVars, commits, formVars,
                       authVars, server>>

handleBlockResizeMouseDown ==
    \E block \in blocks :
        /\ canEdit
        /\ dragging.type = "none"
        /\ gestures < MaxGestures
        /\ LET svgP == SvgPoint(block.x + block.width, block.y + block.height)
           IN dragging' = [type |-> "resize-block", id |-> block.id,
                           startX |-> svgP.x, startY |-> svgP.y,
                           startWidth |-> block.width,
                           startHeight |-> block.height]
        /\ localSize' = [id |-> block.id, width |-> block.width,
                         height |-> block.height]
        /\ tick' = NoTick
        /\ UNCHANGED <<role, room, units, blocks, dragOffset, localPosition,
                       gestures, call, doorVars, commits, formVars,
                       authVars, server>>

\* handleMouseMove, branch dragging.type = 'unit'
handleMouseMoveUnit ==
    \E mx \in PointerXs, my \in PointerYs, unit \in units :
        /\ dragging.type = "unit" /\ dragging.id # "none"
        /\ unit.id = dragging.id
        /\ LET svgP == SvgPoint(mx, my)
               currentX == IF localPosition.id # "none"
                           THEN localPosition.x ELSE unit.x
               currentY == IF localPosition.id # "none"
                           THEN localPosition.y ELSE unit.y
               newX == (svgP.x - offsetX - dragOffset.x) \div scale
               newY == (svgP.y - offsetY - dragOffset.y) \div scale
               clampedX == Max(0, Min(roomWidth - unit.width, newX))
               clampedY == Max(0, Min(roomHeight - unit.height, newY))
               isValidPosition(x, y) == isValidPositionUnit(unit, x, y)
               final == dragFinal(isValidPosition(clampedX, clampedY),
                                  isValidPosition(clampedX, currentY),
                                  isValidPosition(currentX, clampedY),
                                  currentX, currentY, clampedX, clampedY)
           IN /\ localPosition' =
                    IF final # <<currentX, currentY>>
                    THEN [id |-> dragging.id, x |-> final[1], y |-> final[2]]
                    ELSE localPosition
              /\ tick' = [op |-> "drag", kind |-> "unit", id |-> unit.id,
                          cur |-> <<currentX, currentY>>,
                          prop |-> <<clampedX, clampedY>>, out |-> final,
                          ptr |-> <<mx, my>>]
        /\ UNCHANGED <<role, room, units, blocks, dragging, dragOffset,
                       localSize, gestures, call, doorVars, commits, formVars,
                       authVars, server>>

\* handleMouseMove, branch dragging.type = 'block'
handleMouseMoveBlock ==
    \E mx \in PointerXs, my \in PointerYs, block \in blocks :
        /\ dragging.type = "block" /\ dragging.id # "none"
        /\ block.id = dragging.id
        /\ LET svgP == SvgPoint(mx, my)
               currentX == IF localPosition.id # "none"
                           THEN localPosition.x ELSE block.x
               currentY == IF localPosition.id # "none"
                           THEN localPosition.y ELSE block.y
               newX == (svgP.x - offsetX - dragOffset.x) \div scale
               newY == (svgP.y - offsetY - dragOffset.y) \div scale
               clampedX == Max(0, Min(roomWidth - block.width, newX))
               clampedY == Max(0, Min(roomHeight - block.height, newY))
               isValidPosition(x, y) == isValidPositionBlock(block, x, y)
               final == dragFinal(isValidPosition(clampedX, clampedY),
                                  isValidPosition(clampedX, currentY),
                                  isValidPosition(currentX, clampedY),
                                  currentX, currentY, clampedX, clampedY)
           IN /\ localPosition' =
                    IF final # <<currentX, currentY>>
                    THEN [id |-> dragging.id, x |-> final[1], y |-> final[2]]
                    ELSE localPosition
              /\ tick' = [op |-> "drag", kind |-> "block", id |-> block.id,
                          cur |-> <<currentX, currentY>>,
                          prop |-> <<clampedX, clampedY>>, out |-> final,
                          ptr |-> <<mx, my>>]
        /\ UNCHANGED <<role, room, units, blocks, dragging, dragOffset,
                       localSize, gestures, call, doorVars, commits, formVars,
                       authVars, server>>

\* handleMouseMove, branch dragging.type = 'resize-unit' | 'resize-block'
handleMouseMoveResize ==
    \E mx \in ResizePointerCoords, my \in ResizePointerCoords :
        /\ dragging.type \in {"resize-unit", "resize-block"}
        /\ dragging.id # "none"
        /\ LET svgP == SvgPoint(mx, my)
               deltaX == (svgP.x - dragging.startX) \div scale
               deltaY == (svgP.y - dragging.startY) \div scale
               startWidth == IF dragging.startWidth # 0
                             THEN dragging.startWidth ELSE 1000
               startHeight == IF dragging.startHeight # 0
                              THEN dragging.startHeight ELSE 1000
               found == IF dragging.type = "resize-unit"
                        THEN {u \in units : u.id = dragging.id}
                        ELSE {b \in blocks : b.id = dragging.id}
           IN IF found = {}
              THEN /\ localSize' =
                        [id |-> dragging.id,
                         width |-> round01(Max(minSize, startWidth + deltaX)),
                         height |-> round01(Max(minSize, startHeight + deltaY))]
                   /\ tick' = NoTick
              ELSE LET element == CHOOSE e \in found : TRUE
                       prop == resizeProposal(element, deltaX, deltaY,
                                              startWidth, startHeight)
                       final == resizeFinal(dragging.type, element,
                                            prop[1], prop[2])
                   IN /\ localSize' = [id |-> dragging.id,
                                       width |-> final[1],
                                       height |-> final[2]]
                      /\ tick' = [op |-> "resize", kind |-> dragging.type,
                                  id |-> element.id,
                                  cur |-> <<localSize.width, localSize.height>>,
                                  prop |-> prop, out |-> final,
                                  ptr |-> <<mx, my>>]
        /\ UNCHANGED <<role, room, units, blocks, dragging, dragOffset,
                       localPosition, gestures, call, doorVars, commits, formVars,
                       authVars, server>>

\* updateUnit / updateBlock followed by fetchRoom: the patch is stored and
\* the refreshed room replaces currentRoom.
patched(rects, id, p) ==
    {IF r.id = id
     THEN [r EXCEPT !.x = IF p.hasPos THEN p.x ELSE @,
                    !.y = IF p.hasPos THEN p.y ELSE @,
                    !.width = IF p.hasSize THEN p.width ELSE @,
                    !.height = IF p.hasSize THEN p.height ELSE @]
     ELSE r : r \in rects}

PosPatch(x, y) == [hasPos |-> TRUE, hasSize |-> FALSE, x |-> x, y |-> y,
                   width |-> 0, height |-> 0]
SizePatch(w, h) == [hasPos |-> FALSE, hasSize |-> TRUE, x |-> 0, y |-> 0,
                    width |-> w, height |-> h]

\* Inputs of a door drag: where the pointer can be, in room millimetres.
DoorPointerCoords == {1000, 3000, 4500, 5500, 7000, 9500}

\* A mouse-down on the door that already writes the door through.
handleDoorMouseDownWrites ==
    /\ canEdit
    /\ door.wall # "none"
    /\ dragging.type = "none"
    /\ gestures < MaxGestures
    /\ dragging' = [NoDrag EXCEPT !.type = "door"]
    /\ tick' = NoTick
    /\ commits' = commits + 1
    /\ UNCHANGED <<role, room, units, blocks, dragOffset, localPosition,
                   localSize, gestures, call, doorVars, formVars,
                       authVars, server>>

\* handleDoorMouseDown (the Door is rendered, and listens, only when the room
\* has a door and canMove holds)
handleDoorMouseDown ==
    /\ canEdit
    /\ door.wall # "none"
    /\ dragging.type = "none"
    /\ gestures < MaxGestures
    /\ dragging' = [NoDrag EXCEPT !.type = "door"]
    /\ tick' = NoTick
    /\ UNCHANGED <<role, room, units, blocks, dragOffset, localPosition,
                   localSize, gestures, call, doorVars, commits, formVars,
                       authVars, server>>

\* handleMouseMove, branch dragging.type = 'door'.  Every length of the
\* branch is a multiple of scale; the distances are compared in room
\* millimetres (divided by scale), which leaves every comparison unchanged.
handleMouseMoveDoor ==
    \E mx \in DoorPointerCoords, my \in DoorPointerCoords :
        /\ dragging.type = "door"
        /\ LET svgP == SvgPoint(mx, my)
               localX == svgP.x - offsetX
               localY == svgP.y - offsetY
               isLShape == isLShapeOf(room.shape, room.cw, room.ch, room.corner)
               newWall == closest(allDistances(localX \div scale,
                                               localY \div scale,
                                               roomWidth, roomHeight,
                                               room.cw, room.ch,
                                               isLShape, room.corner)).wall
               w == MoveWall(newWall, roomWidth, roomHeight, scale,
                             room.shape, room.cw, room.ch, room.corner)
               raw == normalizePosition(alongWall(newWall, localX, localY),
                                        w.wallOffset, w.wallLength)
               newPos == clampPosition(raw, door.width, w.wallLength, scale)
           IN /\ localDoorWall' = newWall
              /\ localDoorPosition' = newPos
              /\ tick' = [op |-> "door", kind |-> "door", id |-> "none",
                          cur |-> <<localX \div scale, localY \div scale>>,
                          prop |-> <<w.wallLength, w.wallOffset>>,
                          out |-> <<alongWall(newWall, localX, localY), 0>>,
                          wall |-> newWall, raw |-> raw, pos |-> newPos]
        /\ UNCHANGED <<role, room, units, blocks, dragging, dragOffset,
                       localPosition, localSize, gestures, call, door,
                       commits, formVars,
                       authVars, server>>

\* handleMouseUp (also bound to mouse-leave).  Each on...End callback stores
\* its patch and refetches the room (handleDoorMoveEnd, handleUnitMove, ...).
handleMouseUp ==
    /\ dragging.type # "none"
    /\ LET doorEnd == /\ dragging.type = "door"
                      /\ localDoorPosition # NoDoorPosition /\ canEdit
                      /\ (localDoorWall # "none" \/ door.wall # "none")
           unitEnd == /\ dragging.type = "unit" /\ dragging.id # "none"
                      /\ localPosition.id # "none" /\ canEdit
           blockEnd == /\ dragging.type = "block" /\ dragging.id # "none"
                       /\ localPosition.id # "none" /\ canEdit
           unitResize == /\ dragging.type = "resize-unit"
                         /\ dragging.id # "none"
                         /\ localSize.id # "none" /\ canEdit
           blockResize == /\ dragging.type = "resize-block"
                          /\ dragging.id # "none"
                          /\ localSize.id # "none" /\ canEdit
       IN /\ door' =
                IF doorEnd
                THEN [door EXCEPT !.wall = IF localDoorWall # "none"
                                           THEN localDoorWall ELSE @,
                                  !.position = localDoorPosition]
                ELSE door
          /\ units' =
                IF unitEnd
                THEN patched(units, dragging.id,
                             PosPatch(localPosition.x, localPosition.y))
                ELSE IF unitResize
                THEN patched(units, dragging.id,
                             SizePatch(localSize.width, localSize.height))
                ELSE units
          /\ blocks' =
                IF blockEnd
                THEN patched(blocks, dragging.id,
                             PosPatch(localPosition.x, localPosition.y))
                ELSE IF blockResize
                THEN patched(blocks, dragging.id,
                             SizePatch(localSize.width, localSize.height))
                ELSE blocks
          /\ commits' =
                IF doorEnd \/ unitEnd \/ blockEnd \/ unitResize \/ blockResize
                THEN commits + 1 ELSE commits
    /\ dragging' = NoDrag
    /\ localDoorWall' = "none"
    /\ localDoorPosition' = NoDoorPosition
    /\ localSize' = NoSize
    /\ localPosition' = NoPosition
    /\ tick' = NoTick
    /\ gestures' = gestures + 1
    /\ UNCHANGED <<role, room, dragOffset, call, formVars,
                       authVars>>
    /\ server' = [units |-> units', blocks |-> blocks']

----------------------------------------------------------------------------
(* Rooms and layouts the gestures start from *)

RectangleRoom == [width |-> 10000, height |-> 10000, shape |-> "rectangle",
                  cw |-> 0, ch |-> 0, corner |-> "none"]
LShapeRoom(c) == [width |-> 10000, height |-> 10000, shape |-> "l_shape",
                  cw |-> 4000, ch |-> 4000, corner |-> c]

Layout1 == [units |-> {Rect("u1", 2000, 2000, 4000, 4000),
                       Rect("u2", 6000, 6000, 4000, 4000)},
            blocks |-> {Rect("b1", 0, 8000, 2000, 2000)}]
Layout2 == [units |-> {Rect("u1", 2500, 0, 2000, 2000),
                       Rect("u2", 0, 4000, 3000, 2000)},
            blocks |-> {Rect("b1", 0, 0, 2000, 2000)}]
Layout3 == [units |-> {Rect("u1", 4000, 4000, 2000, 2000)},
            blocks |-> {Rect("b1", 6000, 4000, 2000, 2000)}]

Scenarios ==
    { [room |-> RectangleRoom, layout |-> Layout1],
      [room |-> RectangleRoom, layout |-> Layout2],
      [room |-> LShapeRoom("top_right"), layout |-> Layout1],
      [room |-> LShapeRoom("bottom_right"), layout |-> Layout2],
      [room |-> LShapeRoom("top_left"), layout |-> Layout3],
      [room |-> LShapeRoom("bottom_left"), layout |-> Layout3] }

\* Every rectangle is inside the room r and no two of us \cup bs overlap.
LayoutValidIn(r, us, bs) ==
    /\ \A e \in us \cup bs :
          isInsideRoom(e.x, e.y, e.width, e.height, r.width, r.height,
                       r.shape, r.cw, r.ch, r.corner)
    /\ \A a \in us, b \in bs :
          ~rectanglesOverlap(a.x, a.y, a.width, a.height,
                             b.x, b.y, b.width, b.height)
    /\ \A a \in us, b \in us : a.id # b.id =>
          ~rectanglesOverlap(a.x, a.y, a.width, a.height,
                             b.x, b.y, b.width, b.height)
    /\ \A a \in bs, b \in bs : a.id # b.id =>
          ~rectanglesOverlap(a.x, a.y, a.width, a.height,
                             b.x, b.y, b.width, b.height)

LayoutValid == LayoutValidIn(room, units, blocks)

Init ==
    /\ role \in {"viewer", "editor"}
    /\ \E s \in Scenarios :
          /\ LayoutValidIn(s.room, s.layout.units, s.layout.blocks)
          /\ room = s.room
          /\ units = s.layout.units
          /\ blocks = s.layout.blocks
    /\ dragging = NoDrag
    /\ dragOffset = [x |-> 0, y |-> 0]
    /\ localPosition = NoPosition
    /\ localSize = NoSize
    /\ tick = NoTick
    /\ gestures = 0
    /\ call = NoCall
    /\ door = NoDoor
    /\ localDoorWall = "none"
    /\ localDoorPosition = NoDoorPosition
    /\ commits = 0
    /\ newRoom = DefaultNewRoom
    /\ config = NoConfig
    /\ rooms = {}
    /\ token = role
    /\ isLoading = FALSE
    /\ accessToken = role
    /\ requests = <<>>
    /\ loggedOut = FALSE
    /\ server = [units |-> units, blocks |-> blocks]

Next ==
    \/ handleUnitMouseDown
    \/ handleBlockMouseDown
    \/ handleUnitResizeMouseDown
    \/ handleBlockResizeMouseDown
    \/ handleMouseMoveUnit
    \/ handleMouseMoveBlock
    \/ handleMouseMoveResize
    \/ handleMouseUp

Spec == Init /\ [][Next]_vars

----------------------------------------------------------------------------
(* Create / edit handlers of RoomDetail *)

UnitIds == <<"u1", "u2", "u3", "u4">>
BlockIds == <<"b1", "b2", "b3">>
FormSizes == {1000, 6000}

\* getValidInitialPosition
getValidInitialPosition(unitWidth, unitHeight) ==
    LET roomW == room.width
        roomH == room.height
        isLShape == room.shape = "l_shape"
        cutoutW == room.cw
        cutoutH == room.ch
        corner == room.corner
        corners == << [x |-> margin, y |-> margin,
                       blocked |-> corner = "top_left"],
                      [x |-> roomW - unitWidth - margin, y |-> margin,
                       blocked |-> corner = "top_right"],
                      [x |-> margin, y |-> roomH - unitHeight - margin,
                       blocked |-> corner = "bottom_left"],
                      [x |-> roomW - unitWidth - margin,
                       y |-> roomH - unitHeight - margin,
                       blocked |-> corner = "bottom_right"] >>
        ok == {i \in 1..4 : ~corners[i].blocked /\ corners[i].x >= 0
                            /\ corners[i].y >= 0}
    IN IF isLShape /\ cutoutW # 0 /\ cutoutH # 0 /\ corner # "none" /\ ok # {}
       THEN LET i == CHOOSE j \in ok : \A k \in ok : j <= k
            IN <<corners[i].x, corners[i].y>>
       ELSE <<500, 500>>

\* The id the server gives a new row: one not in use.
freshId(ids, rects) ==
    LET free == {i \in 1..Len(ids) : ids[i] \notin {r.id : r \in rects}}
    IN ids[CHOOSE i \in free : \A j \in free : i <= j]

\* handleAddUnit: createUnit with the computed position, then fetchRoom.
handleAddUnit ==
    \E w \in FormSizes, h \in FormSizes :
        /\ canEdit
        /\ dragging.type = "none"
        /\ Cardinality(units) < MaxUnits
        /\ LET validPos == getValidInitialPosition(w, h)
           IN /\ units' = units \cup
                    {Rect(freshId(UnitIds, units), validPos[1], validPos[2], w, h)}
              /\ tick' = [NoTick EXCEPT !.op = "add", !.kind = "unit",
                                        !.id = freshId(UnitIds, units),
                                        !.prop = <<w, h>>,
                                        !.out = validPos]
        /\ UNCHANGED <<role, room, blocks, dragging, dragOffset,
                       localPosition, localSize, gestures, call, doorVars, commits, formVars,
                       authVars>>
        /\ server' = [units |-> units', blocks |-> blocks']

\* handleAddBlock: createBlock with the form's block (x = 0, y = 0).
handleAddBlock ==
    \E w \in FormSizes, h \in FormSizes :
        /\ canEdit
        /\ dragging.type = "none"
        /\ Cardinality(blocks) < MaxBlocks
        /\ blocks' = blocks \cup {Rect(freshId(BlockIds, blocks), 0, 0, w, h)}
        /\ tick' = [NoTick EXCEPT !.op = "add", !.kind = "block"]
        /\ UNCHANGED <<role, room, units, dragging, dragOffset,
                       localPosition, localSize, gestures, call, doorVars, commits, formVars,
                       authVars>>
        /\ server' = [units |-> units', blocks |-> blocks']

\* handleEditUnit: updateUnit of the selected unit with the form's size.
handleEditUnit ==
    \E selectedUnit \in units, w \in FormSizes, h \in FormSizes :
        /\ canEdit
        /\ dragging.type = "none"
        /\ units' = patched(units, selectedUnit.id, SizePatch(w, h))
        /\ tick' = [NoTick EXCEPT !.op = "edit", !.kind = "unit",
                                  !.id = selectedUnit.id]
        /\ UNCHANGED <<role, room, blocks, dragging, dragOffset,
                       localPosition, localSize, gestures, call, doorVars, commits, formVars,
                       authVars>>
        /\ server' = [units |-> units', blocks |-> blocks']

InitCrud ==
    /\ role \in {"viewer", "editor"}
    /\ room \in {RectangleRoom, LShapeRoom("top_left")}
    /\ units = {}
    /\ blocks = {}
    /\ dragging = NoDrag
    /\ dragOffset = [x |-> 0, y |-> 0]
    /\ localPosition = NoPosition
    /\ localSize = NoSize
    /\ tick = NoTick
    /\ gestures = 0
    /\ call = NoCall
    /\ door = NoDoor
    /\ localDoorWall = "none"
    /\ localDoorPosition = NoDoorPosition
    /\ commits = 0
    /\ newRoom = DefaultNewRoom
    /\ config = NoConfig
    /\ rooms = {}
    /\ token = role
    /\ isLoading = FALSE
    /\ accessToken = role
    /\ requests = <<>>
    /\ loggedOut = FALSE
    /\ server = [units |-> units, blocks |-> blocks]

NextCrud ==
    \/ handleAddUnit
    \/ handleAddBlock
    \/ handleEditUnit

SpecCrud == InitCrud /\ [][NextCrud]_vars

----------------------------------------------------------------------------
(* Door of the room: "Show door" toggle and door drag *)

Door(wall, num, den, width) ==
    [wall |-> wall, position |-> Frac(num, den), width |-> width]

\* Rooms of the door drag: the rectangle, the four L-shapes, an L-shape
\* whose cutout wall is as long as a 1 m door, and a room with shape
\* l_shape whose cutout corner is missing.
SmallCutoutRoom == [width |-> 10000, height |-> 10000, shape |-> "l_shape", cw |-> 1000, ch |-> 1000, corner |-> "top_left"]
MissingCornerRoom == [width |-> 10000, height |-> 10000, shape |-> "l_shape", cw |-> 4000, ch |-> 4000, corner |-> "none"]
DoorRooms ==
    {RectangleRoom, SmallCutoutRoom, MissingCornerRoom}
    \cup {LShapeRoom(c) : c \in Corners}

\* Doors a room is created with (Rooms form: wall, position 0.1 .. 0.9,
\* width 0.5 .. 3), or none.
CreatedDoors == {NoDoor, Door("north", 1, 2, 1000), Door("west", 1, 10, 3000)}

\* handleAddDoor('north'), from the "Show door" checkbox, then fetchRoom
handleAddDoor ==
    /\ canEdit
    /\ door.wall = "none"
    /\ dragging.type = "none"
    /\ door' = Door("north", 1, 2, 1000)
    /\ UNCHANGED <<role, room, units, blocks, canvasVars, tick, gestures,
                   call, localDoorWall, localDoorPosition, commits, formVars,
                       authVars, server>>

\* handleRemoveDoor, from the "Show door" checkbox, then fetchRoom
handleRemoveDoor ==
    /\ canEdit
    /\ door.wall # "none"
    /\ dragging.type = "none"
    /\ door' = NoDoor
    /\ UNCHANGED <<role, room, units, blocks, canvasVars, tick, gestures,
                   call, localDoorWall, localDoorPosition, commits, formVars,
                       authVars, server>>

InitDoor ==
    /\ role \in {"viewer", "editor"}
    /\ room \in DoorRooms
    /\ units = {}
    /\ blocks = {}
    /\ dragging = NoDrag
    /\ dragOffset = [x |-> 0, y |-> 0]
    /\ localPosition = NoPosition
    /\ localSize = NoSize
    /\ tick = NoTick
    /\ gestures = 0
    /\ call = NoCall
    /\ door \in CreatedDoors
    /\ localDoorWall = "none"
    /\ localDoorPosition = NoDoorPosition
    /\ commits = 0
    /\ newRoom = DefaultNewRoom
    /\ config = NoConfig
    /\ rooms = {}
    /\ token = role
    /\ isLoading = FALSE
    /\ accessToken = role
    /\ requests = <<>>
    /\ loggedOut = FALSE
    /\ server = [units |-> units, blocks |-> blocks]

NextDoor ==
    \/ handleAddDoor
    \/ handleRemoveDoor
    \/ handleDoorMouseDown
    \/ handleMouseMoveDoor
    \/ handleMouseUp

SpecDoor == InitDoor /\ [][NextDoor]_vars

----------------------------------------------------------------------------
(* All gestures of the canvas: unit, block, resize handle and door *)

InitGesture ==
    /\ role \in {"none", "viewer", "editor"}
    /\ room \in {RectangleRoom, LShapeRoom("top_left")}
    /\ units = Layout3.units
    /\ blocks = Layout3.blocks
    /\ dragging = NoDrag
    /\ dragOffset = [x |-> 0, y |-> 0]
    /\ localPosition = NoPosition
    /\ localSize = NoSize
    /\ tick = NoTick
    /\ gestures = 0
    /\ call = NoCall
    /\ door \in {NoDoor, Door("north", 1, 2, 1000)}
    /\ localDoorWall = "none"
    /\ localDoorPosition = NoDoorPosition
    /\ commits = 0
    /\ newRoom = DefaultNewRoom
    /\ config = NoConfig
    /\ rooms = {}
    /\ token = role
    /\ isLoading = FALSE
    /\ accessToken = role
    /\ requests = <<>>
    /\ loggedOut = FALSE
    /\ server = [units |-> units, blocks |-> blocks]

NextGesture ==
    \/ handleUnitMouseDown
    \/ handleBlockMouseDown
    \/ handleUnitResizeMouseDown
    \/ handleBlockResizeMouseDown
    \/ handleDoorMouseDown
    \/ handleMouseMoveUnit
    \/ handleMouseMoveBlock
    \/ handleMouseMoveResize
    \/ handleMouseMoveDoor
    \/ handleMouseUp

SpecGesture == InitGesture /\ [][NextGesture]_vars

----------------------------------------------------------------------------
(* Room creation: Rooms form and LShapeEditor *)

\* What the form's number inputs can hold (width / height, min 1) and what
\* a leg input of the editor can be set to (Math.max(1, value)).
FormDims == {3000, 10000}
LegSizes == {6000, 10000}

\* legsToBackend
legsToBackend(c) ==
    LET width == Max(c.verticalLegWidth, c.horizontalLegWidth)
        height == c.verticalLegHeight + c.horizontalLegHeight
    IN [width |-> width, height |-> height,
        cutoutWidth |-> Max(0, width - c.verticalLegWidth),
        cutoutHeight |-> Max(0, height - c.horizontalLegHeight)]

\* backendToLegs; width * 0.4 is exact on the millimetre values used
backendToLegs(width, height, cutoutWidth, cutoutHeight, orientation) ==
    LET cw == IF cutoutWidth # 0 THEN cutoutWidth ELSE (width * 4) \div 10
        ch == IF cutoutHeight # 0 THEN cutoutHeight ELSE (height * 4) \div 10
    IN [orientation |-> orientation,
        verticalLegWidth |-> width - cw,
        verticalLegHeight |-> ch,
        horizontalLegWidth |-> width,
        horizontalLegHeight |-> height - ch]

\* The effect of LShapeEditor on [config]: onChange(legsToBackend(config))
\* merged into newRoom r by the Rooms page.
editorChange(r, c) ==
    LET backend == legsToBackend(c)
    IN [r EXCEPT !.width = backend.width, !.height = backend.height,
                 !.corner = c.orientation,
                 !.cw = backend.cutoutWidth, !.ch = backend.cutoutHeight]

\* Math.floor(metres * 0.4), in millimetres
floor04(v) == ((v * 4) \div 10000) * 1000

\* showCreateModal: the modal is followed from its opening to the creation
\* that closes it (setShowCreateModal(false)).
showCreateModal == rooms = {}

\* onChange of the width and height inputs
setWidth ==
    \E v \in FormDims :
        /\ showCreateModal
        /\ newRoom' = [newRoom EXCEPT !.width = v]
        /\ UNCHANGED <<role, room, units, blocks, canvasVars, tick, gestures,
                       call, doorVars, commits, config, rooms, authVars, server>>

setHeight ==
    \E v \in FormDims :
        /\ showCreateModal
        /\ newRoom' = [newRoom EXCEPT !.height = v]
        /\ UNCHANGED <<role, room, units, blocks, canvasVars, tick, gestures,
                       call, doorVars, commits, config, rooms, authVars, server>>

\* onClick of the Rectangle option; the editor unmounts
selectRectangle ==
    /\ showCreateModal
    /\ newRoom' = [newRoom EXCEPT !.shape = "rectangle", !.cw = 0, !.ch = 0,
                                  !.corner = "none"]
    /\ config' = NoConfig
    /\ UNCHANGED <<role, room, units, blocks, canvasVars, tick, gestures,
                   call, doorVars, commits, rooms, authVars, server>>

\* onClick of the L-Shape option; when the editor mounts, its state is
\* backendToLegs of the props and its effect runs once.
selectLShape ==
    /\ showCreateModal
    /\ LET clicked ==
              [newRoom EXCEPT
                  !.shape = "l_shape",
                  !.corner = IF @ # "none" THEN @ ELSE "bottom_right",
                  !.cw = IF @ # 0 THEN @ ELSE floor04(newRoom.width),
                  !.ch = IF @ # 0 THEN @ ELSE floor04(newRoom.height)]
           mounted == backendToLegs(clicked.width, clicked.height, clicked.cw,
                                    clicked.ch, clicked.corner)
       IN IF config = NoConfig
          THEN /\ config' = mounted
               /\ newRoom' = editorChange(clicked, mounted)
          ELSE /\ config' = config
               /\ newRoom' = clicked
    /\ UNCHANGED <<role, room, units, blocks, canvasVars, tick, gestures,
                   call, doorVars, commits, rooms, authVars, server>>

\* updateConfig of a leg input or of an orientation button, then the effect
updateConfig ==
    \E field \in {"verticalLegWidth", "verticalLegHeight",
                  "horizontalLegWidth", "horizontalLegHeight", "orientation"},
       v \in LegSizes, o \in Corners :
        /\ showCreateModal
        /\ config # NoConfig
        /\ config' = IF field = "orientation"
                     THEN [config EXCEPT !.orientation = o]
                     ELSE [config EXCEPT ![field] = v]
        /\ newRoom' = editorChange(newRoom, config')
        /\ UNCHANGED <<role, room, units, blocks, canvasVars, tick, gestures,
                       call, doorVars, commits, rooms, authVars, server>>

\* handleCreate: createRoom(newRoom) posts the room of the form as it is, and
\* roomStore appends it to rooms; the form is reset and closed.
handleCreate ==
    /\ showCreateModal
    /\ rooms' = rooms \cup {newRoom}
    /\ newRoom' = DefaultNewRoom
    /\ config' = NoConfig
    /\ UNCHANGED <<role, room, units, blocks, canvasVars, tick, gestures,
                   call, doorVars, commits, authVars, server>>

InitForm ==
    /\ role = "admin"
    /\ room = RectangleRoom
    /\ units = {}
    /\ blocks = {}
    /\ dragging = NoDrag
    /\ dragOffset = [x |-> 0, y |-> 0]
    /\ localPosition = NoPosition
    /\ localSize = NoSize
    /\ tick = NoTick
    /\ gestures = 0
    /\ call = NoCall
    /\ door = NoDoor
    /\ localDoorWall = "none"
    /\ localDoorPosition = NoDoorPosition
    /\ commits = 0
    /\ newRoom = DefaultNewRoom
    /\ config = NoConfig
    /\ rooms = {}
    /\ token = role
    /\ isLoading = FALSE
    /\ accessToken = role
    /\ requests = <<>>
    /\ loggedOut = FALSE
    /\ server = [units |-> units, blocks |-> blocks]

NextForm ==
    \/ setWidth
    \/ setHeight
    \/ selectRectangle
    \/ selectLShape
    \/ updateConfig
    \/ handleCreate

SpecForm == InitForm /\ [][NextForm]_vars

----------------------------------------------------------------------------
(* Authentication: authStore, App and ProtectedRoute *)

MaxRequests == 2

\* The accounts of the server; a token is written as the role of the
\* account it was issued to, and /auth/me answers with that account.
Accounts == {"viewer", "editor", "admin"}

Post(a) == [api |-> "login", by |-> "login", token |-> a]
GetMe(by, t) == [api |-> "getCurrentUser", by |-> by, token |-> t]

Without(seq, i) == SubSeq(seq, 1, i - 1) \o SubSeq(seq, i + 1, Len(seq))

\* What ProtectedRoute returns for the state of the store.
ProtectedRoute(requireAdmin) ==
    IF isLoading THEN "loading"
    ELSE IF token = "none" \/ role = "none" THEN "redirectTo"
    ELSE IF requireAdmin /\ ~isAdmin THEN "/"
    ELSE "children"

\* login, up to its first await
login ==
    \E a \in Accounts :
        /\ Len(requests) + 2 <= MaxRequests
        /\ isLoading' = TRUE
        /\ requests' = Append(requests, Post(a))
        /\ loggedOut' = FALSE
        /\ UNCHANGED <<role, room, units, blocks, canvasVars, tick, gestures,
                       call, doorVars, commits, formVars, token, accessToken, server>>

\* authApi.login resolves: login stores the token and asks for the user.
\* With a token and no user, the effect of App calls fetchUser, which
\* sets isLoading and asks for the user as well.
loginAnswered ==
    \E i \in 1..Len(requests) :
        /\ requests[i].api = "login"
        /\ accessToken' = requests[i].token
        /\ token' = requests[i].token
        /\ requests' =
              IF role = "none"
              THEN Append(Without(requests, i), GetMe("login", token')) \o <<GetMe("fetchUser", token')>>
              ELSE Append(Without(requests, i), GetMe("login", token'))
        /\ isLoading' = TRUE
        /\ UNCHANGED <<role, room, units, blocks, canvasVars, tick, gestures,
                       call, doorVars, commits, formVars, loggedOut, server>>

\* authApi.login rejects: the catch of login
loginRejected ==
    \E i \in 1..Len(requests) :
        /\ requests[i].api = "login"
        /\ requests' = Without(requests, i)
        /\ isLoading' = FALSE
        /\ UNCHANGED <<role, room, units, blocks, canvasVars, tick, gestures,
                       call, doorVars, commits, formVars, token, accessToken,
                       loggedOut, server>>

\* authApi.getCurrentUser resolves with the account of the token that was
\* sent: login sets user, fetchUser sets user and the token it read.
userAnswered ==
    \E i \in 1..Len(requests) :
        /\ requests[i].api = "getCurrentUser"
        /\ role' = requests[i].token
        /\ token' = IF requests[i].by = "fetchUser" THEN requests[i].token ELSE token
        /\ isLoading' = FALSE
        /\ requests' = Without(requests, i)
        /\ UNCHANGED <<room, units, blocks, canvasVars, tick, gestures,
                       call, doorVars, commits, formVars, accessToken,
                       loggedOut, server>>

\* authApi.getCurrentUser rejects: the catch of login keeps the state, the
\* catch of fetchUser clears it.
userRejected ==
    \E i \in 1..Len(requests) :
        /\ requests[i].api = "getCurrentUser"
        /\ requests' = Without(requests, i)
        /\ isLoading' = FALSE
        /\ IF requests[i].by = "fetchUser"
           THEN accessToken' = "none" /\ role' = "none" /\ token' = "none"
           ELSE UNCHANGED <<accessToken, role, token>>
        /\ UNCHANGED <<room, units, blocks, canvasVars, tick, gestures,
                       call, doorVars, commits, formVars, loggedOut, server>>

\* logout, from the button Layout shows to a user
logout ==
    /\ role # "none"
    /\ accessToken' = "none"
    /\ role' = "none"
    /\ token' = "none"
    /\ loggedOut' = TRUE
    /\ UNCHANGED <<room, units, blocks, canvasVars, tick, gestures, call,
                   doorVars, commits, formVars, isLoading, requests, server>>

\* The store after rehydration and the mount of App: nothing persisted; a
\* token and a user persisted, with or without the fetchUser of a mount
\* that looks at the token only; a token persisted without its user, where
\* onRehydrateStorage sets isLoading and App calls fetchUser.
InitAuth ==
    /\ room = RectangleRoom
    /\ units = {}
    /\ blocks = {}
    /\ dragging = NoDrag
    /\ dragOffset = [x |-> 0, y |-> 0]
    /\ localPosition = NoPosition
    /\ localSize = NoSize
    /\ tick = NoTick
    /\ gestures = 0
    /\ call = NoCall
    /\ door = NoDoor
    /\ localDoorWall = "none"
    /\ localDoorPosition = NoDoorPosition
    /\ commits = 0
    /\ newRoom = DefaultNewRoom
    /\ config = NoConfig
    /\ rooms = {}
    /\ loggedOut = FALSE
    /\ server = [units |-> units, blocks |-> blocks]
    /\ \/ /\ role = "none" /\ token = "none" /\ accessToken = "none"
          /\ isLoading = FALSE /\ requests = <<>>
       \/ \E a \in Accounts :
             /\ token = a /\ accessToken = a
             /\ \/ role = a /\ isLoading = FALSE /\ requests = <<>>
                \/ role = a /\ isLoading = TRUE /\ requests = <<GetMe("fetchUser", a)>>
                \/ role = "none" /\ isLoading = TRUE /\ requests = <<GetMe("fetchUser", a)>>

NextAuth ==
    \/ login
    \/ loginAnswered
    \/ loginRejected
    \/ userAnswered
    \/ userRejected
    \/ logout

SpecAuth == InitAuth /\ [][NextAuth]_vars

----------------------------------------------------------------------------
(* Gestures with the update and the refetch in flight *)

\* storageUnitsApi.update / blocksApi.update, and roomsApi.get of fetchRoom
Update(kind, id, p) == [api |-> "update", kind |-> kind, id |-> id, patch |-> p]
FetchRoom == [api |-> "fetchRoom"]

\* handleMouseUp when the callback's update is not answered at once: the
\* request is sent, the local state is reset and the props stay as they
\* are until the refetch is answered.
handleMouseUpSent ==
    /\ dragging.type \in {"unit", "block", "resize-unit", "resize-block"}
    /\ LET isDrag == dragging.type \in {"unit", "block"}
           kind == IF dragging.type \in {"unit", "resize-unit"} THEN "unit" ELSE "block"
           written == /\ canEdit /\ dragging.id # "none"
                      /\ IF isDrag THEN localPosition.id # "none" ELSE localSize.id # "none"
           p == IF isDrag THEN PosPatch(localPosition.x, localPosition.y)
                ELSE SizePatch(localSize.width, localSize.height)
       IN /\ requests' = IF written THEN Append(requests, Update(kind, dragging.id, p)) ELSE requests
          /\ commits' = IF written THEN commits + 1 ELSE commits
    /\ dragging' = NoDrag
    /\ localDoorWall' = "none"
    /\ localDoorPosition' = NoDoorPosition
    /\ localSize' = NoSize
    /\ localPosition' = NoPosition
    /\ tick' = NoTick
    /\ gestures' = gestures + 1
    /\ UNCHANGED <<role, room, units, blocks, dragOffset, call, door, formVars,
                   token, isLoading, accessToken, loggedOut, server>>

\* The update is answered: the server has stored the patch, and updateUnit
\* / updateBlock goes on to fetchRoom.
updateAnswered ==
    \E i \in 1..Len(requests) :
        /\ requests[i].api = "update"
        /\ server' = IF requests[i].kind = "unit"
                     THEN [server EXCEPT !.units = patched(@, requests[i].id, requests[i].patch)]
                     ELSE [server EXCEPT !.blocks = patched(@, requests[i].id, requests[i].patch)]
        /\ requests' = Append(Without(requests, i), FetchRoom)
        /\ UNCHANGED <<role, room, units, blocks, canvasVars, tick, gestures,
                       call, doorVars, commits, formVars, token, isLoading,
                       accessToken, loggedOut>>

\* roomsApi.get is answered: set({ currentRoom: room })
fetchRoomAnswered ==
    \E i \in 1..Len(requests) :
        /\ requests[i].api = "fetchRoom"
        /\ units' = server.units
        /\ blocks' = server.blocks
        /\ requests' = Without(requests, i)
        /\ UNCHANGED <<role, room, canvasVars, tick, gestures, call, doorVars,
                       commits, formVars, token, isLoading, accessToken,
                       loggedOut, server>>

\* Where the drag of an earlier gesture can have left a unit: positions it
\* validated against the room as it is shown.
EarlierDrags ==
    {Update("unit", u.id, PosPatch(x, y)) : u \in {v \in units : \E x \in {0, 5000} : isValidPositionUnit(v, x, 2000)}, x \in {0, 5000}, y \in {2000}}

\* The canvas at rest, either with nothing in flight or just after the
\* mouse-up of a drag whose update is not answered yet.
InitAsync ==
    /\ role = "editor"
    /\ room = RectangleRoom
    /\ units = Layout3.units
    /\ blocks = Layout3.blocks
    /\ dragging = NoDrag
    /\ dragOffset = [x |-> 0, y |-> 0]
    /\ localPosition = NoPosition
    /\ localSize = NoSize
    /\ tick = NoTick
    /\ gestures = 0
    /\ call = NoCall
    /\ door = NoDoor
    /\ localDoorWall = "none"
    /\ localDoorPosition = NoDoorPosition
    /\ newRoom = DefaultNewRoom
    /\ config = NoConfig
    /\ rooms = {}
    /\ token = role
    /\ isLoading = FALSE
    /\ accessToken = role
    /\ loggedOut = FALSE
    /\ server = [units |-> units, blocks |-> blocks]
    /\ requests \in {<<>>} \cup {<<r>> : r \in {e \in EarlierDrags : isValidPositionUnit(CHOOSE u \in units : u.id = e.id, e.patch.x, e.patch.y)}}
    /\ commits = Len(requests)

NextAsync ==
    \/ handleUnitMouseDown
    \/ handleBlockMouseDown
    \/ handleUnitResizeMouseDown
    \/ handleBlockResizeMouseDown
    \/ handleMouseMoveUnit
    \/ handleMouseMoveBlock
    \/ handleMouseMoveResize
    \/ handleMouseUpSent
    \/ updateAnswered
    \/ fetchRoomAnswered

SpecAsync == InitAsync /\ [][NextAsync]_vars

----------------------------------------------------------------------------
(* Resizing rectangles of any size *)

\* Widths and heights a rectangle can have when a resize starts: the forms
\* of RoomDetail accept any multiple of 0.1 from 0.1 up.
InitialSizes == {300, 500, 2000}

\* u1 touches the east wall, u2 has b1 0.1 m to its right.
ResizeLayout(w) == [units |-> {Rect("u1", RectangleRoom.width - w, 6000, w, w), Rect("u2", 2000, 2000, w, w)}, blocks |-> {Rect("b1", 2000 + w + 100, 2000, 1000, 1000)}]

InitResize ==
    /\ role = "editor"
    /\ room = RectangleRoom
    /\ \E w \in InitialSizes :
          /\ units = ResizeLayout(w).units
          /\ blocks = ResizeLayout(w).blocks
    /\ dragging = NoDrag
    /\ dragOffset = [x |-> 0, y |-> 0]
    /\ localPosition = NoPosition
    /\ localSize = NoSize
    /\ tick = NoTick
    /\ gestures = 0
    /\ call = NoCall
    /\ door = NoDoor
    /\ localDoorWall = "none"
    /\ localDoorPosition = NoDoorPosition
    /\ newRoom = DefaultNewRoom
    /\ config = NoConfig
    /\ rooms = {}
    /\ commits = 0
    /\ token = role
    /\ isLoading = FALSE
    /\ accessToken = role
    /\ requests = <<>>
    /\ loggedOut = FALSE
    /\ server = [units |-> units, blocks |-> blocks]

NextResize ==
    \/ handleUnitResizeMouseDown
    \/ handleBlockResizeMouseDown
    \/ handleMouseMoveResize
    \/ handleMouseUp

SpecResize == InitResize /\ [][NextResize]_vars

----------------------------------------------------------------------------
(* Evaluation of the pure functions on bounded inputs: each behaviour   *)
(* evaluates one function once and records arguments and result in call. *)

ProbeA == Rect("a", 1000, 1000, 1000, 1000)
ProbeOffsets == {0, 5, 10, 11, 1000, 1989, 1990, 1995, 2000, 2500}
ProbeSizes == {1000, 3000}

FnRoom(shape, c, cw, ch) == [width |-> 10000, height |-> 8000,
                             shape |-> shape, cw |-> cw, ch |-> ch,
                             corner |-> c]
FnRooms ==
    {FnRoom("rectangle", "none", 0, 0)}
    \cup {FnRoom("l_shape", c, 4000, 3000) : c \in Corners}
    \cup {FnRoom("l_shape", c, 2000, 5000) : c \in Corners}
    \cup {LShapeRoom(c) : c \in Corners}

InsideXs == {-5, 0, 3989, 3990, 3995, 4000, 4005, 4010, 4011, 8000, 8005}
InsideYs == {-5, 0, 2989, 2990, 2995, 3000, 3005, 3010, 3011, 6000, 6005}

CallRectanglesOverlap ==
    \E bx \in ProbeOffsets, by \in ProbeOffsets, bs \in ProbeSizes,
       swap \in BOOLEAN :
        LET a == IF swap THEN Rect("b", bx, by, bs, bs) ELSE ProbeA
            b == IF swap THEN ProbeA ELSE Rect("b", bx, by, bs, bs)
        IN /\ call.fn = "none"
           /\ call' = [fn |-> "rectanglesOverlap", a |-> a, b |-> b,
                       ret |-> rectanglesOverlap(a.x, a.y, a.width, a.height,
                                                 b.x, b.y, b.width, b.height)]
           /\ UNCHANGED <<role, room, units, blocks, dragging, dragOffset,
                          localPosition, localSize, tick, gestures, doorVars, commits, formVars,
                       authVars, server>>

CallIsInsideRoom ==
    \E r \in FnRooms, x \in InsideXs, y \in InsideYs :
        /\ call.fn = "none"
        /\ call' = [fn |-> "isInsideRoom", room |-> r,
                    rect |-> Rect("a", x, y, 2000, 2000),
                    ret |-> isInsideRoom(x, y, 2000, 2000, r.width, r.height,
                                         r.shape, r.cw, r.ch, r.corner)]
        /\ UNCHANGED <<role, room, units, blocks, dragging, dragOffset,
                       localPosition, localSize, tick, gestures, doorVars, commits, formVars,
                       authVars, server>>

CallWalls ==
    \E r \in FnRooms, wall \in Walls :
        LET sc == scaleOf(r.width, r.height)
        IN /\ call.fn = "none"
           /\ call' = [fn |-> "walls", room |-> r, wall |-> wall,
                       scale |-> sc,
                       door |-> DoorWall(wall, r.width, r.height, sc, r.shape,
                                         r.cw, r.ch, r.corner),
                       move |-> MoveWall(wall, r.width, r.height, sc, r.shape,
                                         r.cw, r.ch, r.corner)]
           /\ UNCHANGED <<role, room, units, blocks, dragging, dragOffset,
                          localPosition, localSize, tick, gestures, doorVars, commits, formVars,
                       authVars, server>>

\* Shape configurations a Room can carry: the well-formed ones and those
\* with shape l_shape whose cutout corner, width or height is null, or with
\* shape rectangle and cutout fields left over.
ShapeConfigs ==
    FnRooms
    \cup {FnRoom("l_shape", "none", 4000, 3000), FnRoom("l_shape", "top_left", 0, 3000)}
    \cup {FnRoom("l_shape", "top_left", 4000, 0), FnRoom("rectangle", "top_left", 4000, 3000)}

\* One render of RoomCanvas and Door for a room, and the boundary test of
\* a rectangle against the same props.
CallRoomRegion ==
    \E r \in ShapeConfigs, x \in InsideXs, y \in InsideYs :
        LET sc == scaleOf(r.width, r.height)
        IN /\ call.fn = "none"
           /\ call' = [fn |-> "roomRegion", room |-> r, scale |-> sc,
                       rect |-> Rect("a", x, y, 2000, 2000),
                       path |-> getRoomPath(r.width, r.height, sc, r.shape,
                                            r.cw, r.ch, r.corner),
                       isLShape |-> isLShapeOf(r.shape, r.cw, r.ch, r.corner),
                       ret |-> isInsideRoom(x, y, 2000, 2000, r.width, r.height,
                                            r.shape, r.cw, r.ch, r.corner)]
           /\ UNCHANGED <<role, room, units, blocks, dragging, dragOffset,
                          localPosition, localSize, tick, gestures, doorVars,
                          commits, formVars, authVars, server>>

InitFn ==
    /\ role = "editor"
    /\ room = RectangleRoom
    /\ units = {}
    /\ blocks = {}
    /\ dragging = NoDrag
    /\ dragOffset = [x |-> 0, y |-> 0]
    /\ localPosition = NoPosition
    /\ localSize = NoSize
    /\ tick = NoTick
    /\ gestures = 0
    /\ call = NoCall
    /\ door = NoDoor
    /\ localDoorWall = "none"
    /\ localDoorPosition = NoDoorPosition
    /\ commits = 0
    /\ newRoom = DefaultNewRoom
    /\ config = NoConfig
    /\ rooms = {}
    /\ token = role
    /\ isLoading = FALSE
    /\ accessToken = role
    /\ requests = <<>>
    /\ loggedOut = FALSE
    /\ server = [units |-> units, blocks |-> blocks]

NextFn ==
    \/ CallRectanglesOverlap
    \/ CallIsInsideRoom
    \/ CallWalls
    \/ CallRoomRegion

SpecFn == InitFn /\ [][NextFn]_vars

----------------------------------------------------------------------------
(* Properties *)

\* What the properties mean by a legal placement: the rectangle
\* (x, y, w, h) of the element `self` of kind `kind` is inside the room and
\* overlaps no other unit and no other block.
Placed == {[kind |-> "unit", r |-> u] : u \in units}
          \cup {[kind |-> "block", r |-> b] : b \in blocks}

PlacementOk(kind, self, x, y, w, h) ==
    /\ isInsideRoom(x, y, w, h, roomWidth, roomHeight, room.shape, room.cw,
                    room.ch, room.corner)
    /\ \A o \in Placed :
          (o.kind # kind \/ o.r.id # self.id) =>
              ~rectanglesOverlap(x, y, w, h, o.r.x, o.r.y, o.r.width, o.r.height)

\* The element a gesture is about.
DragKind == IF dragging.type \in {"unit", "resize-unit"} THEN "unit" ELSE "block"
Dragged ==
    IF DragKind = "unit"
    THEN {u \in units : u.id = dragging.id}
    ELSE {b \in blocks : b.id = dragging.id}
TickKind == IF tick.kind \in {"unit", "resize-unit"} THEN "unit" ELSE "block"
Ticked ==
    IF TickKind = "unit"
    THEN {u \in units : u.id = tick.id}
    ELSE {b \in blocks : b.id = tick.id}

\* C1: during a drag that started from a valid layout, the dragged
\* rectangle at its locally committed position is inside the room shape and
\* overlaps no other unit or block.
C1_DragKeepsLayoutValid ==
    (dragging.type \in {"unit", "block"} /\ localPosition.id = dragging.id
     /\ LayoutValid)
    => \A e \in Dragged :
          PlacementOk(DragKind, e, localPosition.x, localPosition.y,
                      e.width, e.height)

\* C2: a drag tick commits the proposed position if it is valid, else
\* (proposed x, current y) if that is valid, else (current x, proposed y) if
\* that is valid, else the current position.
C2_DragPriorityOrder ==
    tick.op = "drag" =>
        \A e \in Ticked :
            LET ok(x, y) == PlacementOk(TickKind, e, x, y, e.width, e.height)
                cx == tick.cur[1]
                cy == tick.cur[2]
                px == tick.prop[1]
                py == tick.prop[2]
            IN tick.out = IF ok(px, py) THEN <<px, py>>
                          ELSE IF ok(px, cy) THEN <<px, cy>>
                          ELSE IF ok(cx, py) THEN <<cx, py>>
                          ELSE <<cx, cy>>

\* C3: during a resize that started from a valid layout, the rectangle with
\* its locally committed width and height is inside the room shape and
\* overlaps no other unit or block.
C3_ResizeKeepsLayoutValid ==
    (dragging.type \in {"resize-unit", "resize-block"}
     /\ localSize.id = dragging.id /\ LayoutValid)
    => \A e \in Dragged :
          PlacementOk(DragKind, e, e.x, e.y, localSize.width, localSize.height)

C3_Witness ==
    /\ tick.op = "resize"
    /\ LayoutValid
    /\ room.shape = "l_shape"
    /\ tick.out = tick.prop
    /\ tick.out # tick.cur
    /\ localSize.width = tick.out[1] /\ localSize.height = tick.out[2]

\* C4: a resize tick whose proposal (after floor, rounding and cap) leaves
\* the room shape or collides with another unit or block keeps the previous
\* locally committed size in both dimensions.
C4_InvalidResizeKeepsSize ==
    tick.op = "resize" =>
        \A e \in Ticked :
            ~PlacementOk(TickKind, e, e.x, e.y, tick.prop[1], tick.prop[2])
            => /\ tick.out = tick.cur
               /\ localSize.width = tick.cur[1]
               /\ localSize.height = tick.cur[2]

C4_Witness ==
    /\ tick.op = "resize"
    /\ tick.kind = "resize-block"
    /\ \E e \in Ticked : e.x = 0 /\ e.y = 0
    /\ Rect("u1", 2500, 0, 2000, 2000) \in units
    /\ tick.cur = <<2000, 2000>>
    /\ tick.prop = <<3000, 3000>>
    /\ localSize.width = 2000 /\ localSize.height = 2000

\* C5: the persisted layout never contains a rectangle outside the room
\* shape or two overlapping rectangles.
C5_PersistedLayoutValid == LayoutValid

\* C6: isValidPosition is true exactly when the candidate is inside the room
\* shape and overlaps no placed rectangle other than the candidate's own.
CandidateXs == {0, 2000, 5000, 6000, 8000}
C6_ValidityPredicate ==
    /\ \A unit \in units, x \in CandidateXs, y \in CandidateXs :
          isValidPositionUnit(unit, x, y)
              = PlacementOk("unit", unit, x, y, unit.width, unit.height)
    /\ \A block \in blocks, x \in CandidateXs, y \in CandidateXs :
          isValidPositionBlock(block, x, y)
              = PlacementOk("block", block, x, y, block.width, block.height)

C6_Witness ==
    /\ tick.op = "drag"
    /\ tick.out = tick.prop
    /\ tick.out # tick.cur
    /\ \E e \in Ticked :
          /\ rectanglesOverlap(tick.prop[1], tick.prop[2], e.width, e.height,
                               e.x, e.y, e.width, e.height)
          /\ \E o \in Placed :
                /\ o.r.id # e.id
                /\ rectanglesOverlapStrict(tick.prop[1] - 1, tick.prop[2] - 1,
                                           e.width + 2, e.height + 2,
                                           o.r.x, o.r.y, o.r.width, o.r.height)

\* C7: rectanglesOverlap is false when the rectangles interpenetrate by at
\* most 0.01 along x or along y, and true when they interpenetrate by more
\* than 0.01 along both.
C7_OverlapTolerance ==
    call.fn = "rectanglesOverlap" =>
        LET a == call.a
            b == call.b
            ix == Min(a.x + a.width - b.x, b.x + b.width - a.x)
            iy == Min(a.y + a.height - b.y, b.y + b.height - a.y)
        IN /\ (ix <= 10 \/ iy <= 10) => call.ret = FALSE
           /\ (ix > 10 /\ iy > 10) => call.ret = TRUE

C7_Witness ==
    /\ call.fn = "rectanglesOverlap"
    /\ LET a == call.a
           b == call.b
           ix == Min(a.x + a.width - b.x, b.x + b.width - a.x)
           iy == Min(a.y + a.height - b.y, b.y + b.height - a.y)
       IN ix > 0 /\ ix <= 10 /\ iy > 10 /\ call.ret = FALSE

\* The cutout of an L-shaped room r: cw x ch, anchored at the corner.
Cutout(r) ==
    [x1 |-> IF r.corner \in {"top_left", "bottom_left"} THEN 0
            ELSE r.width - r.cw,
     x2 |-> IF r.corner \in {"top_left", "bottom_left"} THEN r.cw
            ELSE r.width,
     y1 |-> IF r.corner \in {"top_left", "top_right"} THEN 0
            ELSE r.height - r.ch,
     y2 |-> IF r.corner \in {"top_left", "top_right"} THEN r.ch
            ELSE r.height]

ValidLShape(r) ==
    /\ r.shape = "l_shape" /\ r.corner \in Corners
    /\ 0 < r.cw /\ r.cw < r.width /\ 0 < r.ch /\ r.ch < r.height

InBox(r, e) ==
    e.x >= 0 /\ e.y >= 0 /\ e.x + e.width <= r.width
    /\ e.y + e.height <= r.height

\* Interpenetration of e and the cutout of r along x and along y.
IntrusionX(r, e) == Min(e.x + e.width - Cutout(r).x1, Cutout(r).x2 - e.x)
IntrusionY(r, e) == Min(e.y + e.height - Cutout(r).y1, Cutout(r).y2 - e.y)

\* C8 as stated: the boundary test accepts a rectangle iff it lies in the
\* bounding box and does not intrude into the cutout by more than 0.01
\* along both axes.
C8_CutoutTolerance ==
    (call.fn = "isInsideRoom" /\ ValidLShape(call.room)) =>
        call.ret = (/\ InBox(call.room, call.rect)
                    /\ ~(/\ IntrusionX(call.room, call.rect) > 10
                         /\ IntrusionY(call.room, call.rect) > 10))

\* C8 amended: the boundary test accepts a rectangle iff it lies in the
\* bounding box and does not intrude into the cutout at all along both
\* axes; touching a cutout edge is accepted, any positive intrusion is not.
C8_CutoutStrict ==
    (call.fn = "isInsideRoom" /\ ValidLShape(call.room)) =>
        call.ret = (/\ InBox(call.room, call.rect)
                    /\ ~(/\ IntrusionX(call.room, call.rect) > 0
                         /\ IntrusionY(call.room, call.rect) > 0))

C8_Witness ==
    /\ call.fn = "isInsideRoom"
    /\ ValidLShape(call.room)
    /\ InBox(call.room, call.rect)
    /\ IntrusionX(call.room, call.rect) > 0
    /\ IntrusionX(call.room, call.rect) <= 10
    /\ IntrusionY(call.room, call.rect) > 10
    /\ call.ret = FALSE

\* C9: every rectangle the boundary test accepts in a valid L-shaped room
\* has its four corner points in the room (in the bounding box and not
\* strictly inside the cutout) and does not overlap the cutout.
ContainsPoint(r, px, py) ==
    /\ 0 <= px /\ px <= r.width /\ 0 <= py /\ py <= r.height
    /\ ~(/\ Cutout(r).x1 < px /\ px < Cutout(r).x2
         /\ Cutout(r).y1 < py /\ py < Cutout(r).y2)

C9_AcceptedCornersInRoom ==
    (call.fn = "isInsideRoom" /\ ValidLShape(call.room) /\ call.ret = TRUE) =>
        LET e == call.rect
            r == call.room
        IN /\ \A px \in {e.x, e.x + e.width}, py \in {e.y, e.y + e.height} :
                 ContainsPoint(r, px, py)
           /\ ~rectanglesOverlapStrict(e.x, e.y, e.width, e.height,
                                       Cutout(r).x1, Cutout(r).y1,
                                       r.cw, r.ch)
           /\ ~ContainsPoint(LShapeRoom("bottom_right"), 9000, 9000)
           /\ ContainsPoint(LShapeRoom("bottom_right"), 2000, 2000)

C9_Witness ==
    /\ call.fn = "isInsideRoom"
    /\ ValidLShape(call.room)
    /\ call.room.corner = "bottom_right"
    /\ call.ret = TRUE
    /\ IntrusionX(call.room, call.rect) = 0
    /\ IntrusionY(call.room, call.rect) > 0

\* The wall table of C10, in room units: length and offset of the wall's
\* effective run and, for the two cutout walls, the line they lie on.
ClaimedWall(r, wall) ==
    LET left == r.corner \in {"top_left", "bottom_left"}
        top == r.corner \in {"top_left", "top_right"}
        horizontalRun == [length |-> r.width - r.cw,
                          offset |-> IF left THEN r.cw ELSE 0, at |-> 0]
        verticalRun == [length |-> r.height - r.ch,
                        offset |-> IF top THEN r.ch ELSE 0, at |-> 0]
        fullWidth == [length |-> r.width, offset |-> 0, at |-> 0]
        fullHeight == [length |-> r.height, offset |-> 0, at |-> 0]
    IN CASE wall = "north" -> IF top THEN horizontalRun ELSE fullWidth
         [] wall = "south" -> IF ~top THEN horizontalRun ELSE fullWidth
         [] wall = "west" -> IF left THEN verticalRun ELSE fullHeight
         [] wall = "east" -> IF ~left THEN verticalRun ELSE fullHeight
         [] wall = "cutout_horizontal" ->
              [length |-> r.cw,
               offset |-> IF left THEN 0 ELSE r.width - r.cw,
               at |-> IF top THEN r.ch ELSE r.height - r.ch]
         [] wall = "cutout_vertical" ->
              [length |-> r.ch,
               offset |-> IF top THEN 0 ELSE r.height - r.ch,
               at |-> IF left THEN r.cw ELSE r.width - r.cw]

\* C10: for every cutout corner and every wall, the Door component and the
\* door branch of handleMouseMove both use the effective length and offset
\* of the wall table (and, for the cutout walls, its line).
C10_WallTable ==
    (call.fn = "walls" /\ ValidLShape(call.room)) =>
        LET w == ClaimedWall(call.room, call.wall)
            sc == call.scale
            internal == call.wall \in {"cutout_horizontal", "cutout_vertical"}
        IN /\ call.door.wallLength = w.length * sc
           /\ call.door.wallOffset = w.offset * sc
           /\ call.move.wallLength = w.length * sc
           /\ call.move.wallOffset = w.offset * sc
           /\ internal => /\ call.door.at = w.at * sc
                          /\ call.move.at = w.at * sc

C10_Witness ==
    /\ call.fn = "walls"
    /\ call.room = LShapeRoom("bottom_right")
    /\ call.wall = "cutout_vertical"
    /\ call.door.wallLength = 4000 * call.scale
    /\ call.door.wallOffset = 6000 * call.scale
    /\ call.door.at = 6000 * call.scale
    /\ call.move = call.door
    /\ DoorWall("south", 10000, 10000, call.scale, "l_shape", 4000, 4000,
                "bottom_right").wallLength = 6000 * call.scale

----------------------------------------------------------------------------
(* Door drag *)

DoorTicked == tick.op = "door"
CutoutWalls == {"cutout_horizontal", "cutout_vertical"}
RoomIsLShape == isLShapeOf(room.shape, room.cw, room.ch, room.corner)

\* C11: in a room that is not an L-shape (shape rectangle, or cutout width,
\* height or corner missing) no door-drag tick selects cutout_horizontal or
\* cutout_vertical, and the door never ends up on one of them.
C11_NoCutoutWallOutsideLShape ==
    ~RoomIsLShape =>
        /\ localDoorWall \notin CutoutWalls
        /\ door.wall \notin CutoutWalls
        /\ DoorTicked => tick.wall \notin CutoutWalls

\* A tick in the room whose cutout corner is missing, with the pointer next
\* to the place where the cutout of a bottom-right notch would be.
C11_Witness ==
    /\ room = MissingCornerRoom
    /\ DoorTicked
    /\ tick.cur = <<7000, 5500>>
    /\ localDoorWall = "east"

\* The wall segments of the current shape: the perimeter walls (shortened
\* next to the notch) and, in an L-shape, the two cutout walls.
ShapeWalls ==
    {"north", "south", "east", "west"}
    \cup (IF RoomIsLShape THEN CutoutWalls ELSE {})

\* The segment of a wall of the current shape, in millimetres: the line it
\* lies on and the span from .. to along it.
WallSegment(wall) ==
    LET W == room.width
        H == room.height
        notch(c) == RoomIsLShape /\ room.corner = c
        top == room.corner \in {"top_left", "top_right"}
        left == room.corner \in {"top_left", "bottom_left"}
        fromH == IF left THEN 0 ELSE W - room.cw
        fromV == IF top THEN 0 ELSE H - room.ch
    IN CASE wall = "north" ->
              [at |-> 0, from |-> IF notch("top_left") THEN room.cw ELSE 0,
               to |-> IF notch("top_right") THEN W - room.cw ELSE W]
         [] wall = "south" ->
              [at |-> H, from |-> IF notch("bottom_left") THEN room.cw ELSE 0,
               to |-> IF notch("bottom_right") THEN W - room.cw ELSE W]
         [] wall = "west" ->
              [at |-> 0, from |-> IF notch("top_left") THEN room.ch ELSE 0,
               to |-> IF notch("bottom_left") THEN H - room.ch ELSE H]
         [] wall = "east" ->
              [at |-> W, from |-> IF notch("top_right") THEN room.ch ELSE 0,
               to |-> IF notch("bottom_right") THEN H - room.ch ELSE H]
         [] wall = "cutout_horizontal" ->
              [at |-> IF top THEN room.ch ELSE H - room.ch,
               from |-> fromH, to |-> fromH + room.cw]
         [] wall = "cutout_vertical" ->
              [at |-> IF left THEN room.cw ELSE W - room.cw,
               from |-> fromV, to |-> fromV + room.ch]

\* Squared point-to-segment distance from (px, py) to wall, in millimetres.
SegmentDist2(wall, px, py) ==
    LET w == WallSegment(wall)
        horizontal == wall \in {"north", "south", "cutout_horizontal"}
        along == IF horizontal THEN px ELSE py
        across == IF horizontal THEN py ELSE px
        nearest == Max(w.from, Min(w.to, along))
    IN (along - nearest) * (along - nearest)
       + (across - w.at) * (across - w.at)

\* C12: the wall a door-drag tick chooses is a wall segment of the current
\* shape whose point-to-segment distance to the pointer is minimal.
C12_NearestWallSegment ==
    DoorTicked =>
        /\ tick.wall \in ShapeWalls
        /\ \A other \in ShapeWalls :
              SegmentDist2(tick.wall, tick.cur[1], tick.cur[2])
                 <= SegmentDist2(other, tick.cur[1], tick.cur[2])

\* The wall table of the Door component for the current room.
DoorWallOf(wall) ==
    DoorWall(wall, roomWidth, roomHeight, scale, room.shape, room.cw,
             room.ch, room.corner)

\* The wall table of handleMouseMove for the current room.
MoveWallOf(wall) ==
    MoveWall(wall, roomWidth, roomHeight, scale, room.shape, room.cw,
             room.ch, room.corner)

\* C13: round trip.  When the position a door-drag tick normalized lies
\* inside the clamp range, the door centre the Door component derives from
\* (wall, position), wallOffset + position * wallLength, is the pointer's
\* coordinate along the wall; the two wall tables agree on every wall of the
\* shape.
C13_RoundTrip ==
    /\ \A wall \in ShapeWalls :
          /\ DoorWallOf(wall).wallLength = MoveWallOf(wall).wallLength
          /\ DoorWallOf(wall).wallOffset = MoveWallOf(wall).wallOffset
    /\ (DoorTicked /\ tick.pos = tick.raw) =>
          tick.pos.num * DoorWallOf(tick.wall).wallLength
             = (tick.out[1] - DoorWallOf(tick.wall).wallOffset) * tick.pos.den

\* A tick on the vertical cutout wall of a bottom-right notch, 1 m along
\* the 4 m wall, that the clamp leaves alone.
C13_Witness ==
    /\ room = LShapeRoom("bottom_right")
    /\ DoorTicked
    /\ tick.wall = "cutout_vertical"
    /\ tick.raw = Frac(1, 4)
    /\ tick.pos = tick.raw
    /\ localDoorPosition = tick.pos

\* Effective length of a wall of the current shape, in millimetres.
WallLength(wall) == WallSegment(wall).to - WallSegment(wall).from

\* door_width as the canvas uses it (doorWidth || 1)
DoorWidth == IF door.width # 0 THEN door.width ELSE 1000

\* The door of width DoorWidth at normalized position p of wall lies inside
\* the wall with at least `percent` % of the wall length free at each end.
FitsWithMargin(wall, p, percent) ==
    LET L == WallLength(wall)
    IN /\ 100 * p.num * L - 50 * DoorWidth * p.den >= percent * L * p.den
       /\ 100 * p.num * L + 50 * DoorWidth * p.den
             <= (100 - percent) * L * p.den

\* clamp(pos, lo, hi) for lo <= hi
Clamp(pos, lo, hi) ==
    IF FracLess(pos, lo) THEN lo ELSE IF FracLess(hi, pos) THEN hi ELSE pos

\* d / 2 + 0.02 for d = door width / effective wall length
ClampLo(wall) == FracAdd(Frac(DoorWidth, 2 * WallLength(wall)), Frac(2, 100))
ClampHi(wall) == FracSub(Frac(1, 1), ClampLo(wall))

\* C14: the position a door-drag tick produces is
\* clamp(pos, d/2 + 0.02, 1 - d/2 - 0.02); a position inside the range is
\* returned unchanged; the door's full width then lies inside the wall with
\* at least 2% of the wall length free at each end.
C14_ClampKeepsDoorInsideWall ==
    DoorTicked =>
        /\ (FracLeq(ClampLo(tick.wall), tick.raw)
            /\ FracLeq(tick.raw, ClampHi(tick.wall))) => tick.pos = tick.raw
        /\ FracLeq(ClampLo(tick.wall), ClampHi(tick.wall)) =>
              tick.pos = Clamp(tick.raw, ClampLo(tick.wall), ClampHi(tick.wall))
        /\ FitsWithMargin(tick.wall, tick.pos, 2)

\* C15: when the door is at least as wide as the wall under the pointer, a
\* door-drag tick does not move the door onto that wall and emits no
\* position; it never emits a position from a clamp range whose lower bound
\* is above its upper bound.
C15_WideDoorRejected ==
    DoorTicked =>
        /\ DoorWidth >= WallLength(tick.wall) =>
              /\ localDoorWall # tick.wall
              /\ localDoorPosition = NoDoorPosition
        /\ FracLess(ClampHi(tick.wall), ClampLo(tick.wall)) =>
              localDoorPosition # tick.pos

\* C16: whenever the room has a door, its full width fits strictly inside
\* its wall under the current shape: position * L - width / 2 > 0 and
\* position * L + width / 2 < L.
C16_DoorFitsItsWall ==
    door.wall # "none" =>
        /\ door.wall \in ShapeWalls
        /\ 2 * door.position.num * WallLength(door.wall)
              > DoorWidth * door.position.den
        /\ 2 * door.position.num * WallLength(door.wall)
              + DoorWidth * door.position.den
              < 2 * WallLength(door.wall) * door.position.den

----------------------------------------------------------------------------
(* Determinism and write-through *)

\* What a tick commits, as a function of the element, its current local
\* transform, the proposal, the other rectangles and the room shape alone.
Resolution(op, kind, e, cur, prop) ==
    IF op = "drag"
    THEN LET ok(x, y) == PlacementOk(kind, e, x, y, e.width, e.height)
         IN IF ok(prop[1], prop[2]) THEN prop
            ELSE <<IF ok(prop[1], cur[2]) THEN prop[1] ELSE cur[1],
                   IF ok(cur[1], prop[2]) THEN prop[2] ELSE cur[2]>>
    ELSE IF PlacementOk(kind, e, e.x, e.y, prop[1], prop[2])
         THEN prop ELSE cur

\* C17: what a drag or resize tick commits is determined by (current local
\* transform, proposal, other units and blocks, room shape); it does not
\* depend on earlier ticks of the gesture or on where the gesture started.
C17_TickDeterminedByInputs ==
    tick.op \in {"drag", "resize"} =>
        \A e \in Ticked :
            tick.out = Resolution(tick.op, TickKind, e, tick.cur, tick.prop)

\* A resize tick after an earlier tick has changed the size: the proposal
\* is rejected and the current size, not the starting size, is kept.
C17_Witness ==
    /\ tick.op = "resize"
    /\ LayoutValid
    /\ \E e \in Ticked :
          /\ tick.cur # <<e.width, e.height>>
          /\ ~PlacementOk(TickKind, e, e.x, e.y, tick.prop[1], tick.prop[2])
    /\ tick.out = tick.cur
    /\ localSize.width = tick.out[1] /\ localSize.height = tick.out[2]

\* A step that ends a gesture (mouse-up or mouse-leave while dragging).
GestureEnds == dragging.type # "none" /\ dragging'.type = "none"

\* The persisted room after the step carries the last local transform of
\* the gesture that ends.
CarriesLocalTransform ==
    CASE dragging.type = "door" ->
            /\ door'.position = localDoorPosition
            /\ door'.wall = localDoorWall
            /\ units' = units /\ blocks' = blocks
      [] dragging.type \in {"unit", "block"} ->
            /\ \E e \in units' \cup blocks' :
                  /\ e.id = dragging.id
                  /\ e.x = localPosition.x /\ e.y = localPosition.y
            /\ door' = door
      [] OTHER ->
            /\ \E e \in units' \cup blocks' :
                  /\ e.id = dragging.id
                  /\ e.width = localSize.width
                  /\ e.height = localSize.height
            /\ door' = door

NothingWritten == commits' = commits /\ UNCHANGED <<units, blocks, door>>

\* C18 as stated: every gesture writes through exactly once, at its end,
\* with the last local transform; no other step writes.
C18_OneWritePerGesture ==
    [][IF GestureEnds
       THEN commits' = commits + 1 /\ CarriesLocalTransform
       ELSE NothingWritten]_vars

\* A door gesture in which the pointer never moved.
DoorUntouched == dragging.type = "door" /\ localDoorPosition = NoDoorPosition

\* C18: a gesture writes through exactly once, at its end, with the last
\* local transform, unless it is a door gesture without a single tick, which
\* writes nothing; no other step writes.
C18_OneWritePerMovedGesture ==
    [][IF GestureEnds /\ ~DoorUntouched
       THEN commits' = commits + 1 /\ CarriesLocalTransform
       ELSE NothingWritten]_vars

\* A door gesture has ended and written the door through, onto a cutout
\* wall.
C18_Witness ==
    /\ gestures = 1
    /\ commits = 1
    /\ dragging.type = "none"
    /\ door.wall = "cutout_horizontal"

----------------------------------------------------------------------------
(* Construction of the room shape *)

\* 0 < cutout_width < W and 0 < cutout_height < H
WellFormedLShape(r) ==
    /\ 0 < r.cw /\ r.cw < r.width
    /\ 0 < r.ch /\ r.ch < r.height

\* C19: an L-shape whose cutout violates 0 < cutout_width < W or
\* 0 < cutout_height < H is rejected by the form and the editor: no room
\* with shape l_shape and such a cutout is ever created.
C19_MalformedLShapeRejected ==
    \A r \in rooms : r.shape = "l_shape" => WellFormedLShape(r)

----------------------------------------------------------------------------
(* Initial position of a new unit *)

\* The rectangle handleAddUnit has just created: tick.prop is its size
\* and tick.out the position getValidInitialPosition returned.
NewUnit == [x |-> tick.out[1], y |-> tick.out[2], width |-> tick.prop[1], height |-> tick.prop[2]]

\* C20: the initial position computed for a new storage unit places it
\* inside the room shape: inside the bounding box and, in an L-shaped
\* room, not overlapping the cutout.
C20_InitialPositionInsideRoom ==
    (tick.op = "add" /\ tick.kind = "unit") =>
        /\ InBox(room, NewUnit)
        /\ ValidLShape(room) =>
              ~(IntrusionX(room, NewUnit) > 0 /\ IntrusionY(room, NewUnit) > 0)

----------------------------------------------------------------------------
(* Resize proposal *)

ResizeTicked == tick.op = "resize"

\* The rectangle being resized, as the canvas was handed it.
Resized == CHOOSE e \in (IF tick.kind = "resize-unit" THEN units ELSE blocks) : e.id = tick.id

\* The multiple of 0.1 m nearest to v, halves going up.
Nearest01(v) == CHOOSE r \in {100 * k : k \in (v \div 100)..(v \div 100 + 1)} : r - 50 <= v /\ v < r + 50

\* Pointer travel since the mouse-down on the bottom-right handle, where
\* the rectangle had its start size.
TravelX == tick.ptr[1] - (Resized.x + dragging.startWidth)
TravelY == tick.ptr[2] - (Resized.y + dragging.startHeight)

FlooredRoundedW == Nearest01(Max(500, dragging.startWidth + TravelX))
FlooredRoundedH == Nearest01(Max(500, dragging.startHeight + TravelY))

\* C21: the size proposed by a resize tick is max(0.5, start + delta) per
\* dimension, rounded to the nearest 0.1, then capped at W - x and H - y;
\* so after a resize tick on a rectangle inside the bounding box,
\* x + width <= W and y + height <= H.
C21_ResizeProposalCapped ==
    ResizeTicked =>
        /\ tick.prop[1] = Min(FlooredRoundedW, room.width - Resized.x)
        /\ tick.prop[2] = Min(FlooredRoundedH, room.height - Resized.y)
        /\ InBox(room, Resized) =>
              /\ Resized.x + localSize.width <= room.width
              /\ Resized.y + localSize.height <= room.height

\* A tick whose rounded width is beyond the east wall: the cap cuts it to
\* W - x, and the capped size is committed.
C21_Witness ==
    /\ ResizeTicked
    /\ InBox(room, Resized)
    /\ FlooredRoundedW > room.width - Resized.x
    /\ tick.prop[1] = room.width - Resized.x
    /\ localSize.width = tick.prop[1]

----------------------------------------------------------------------------
(* Symmetry of units and blocks *)

\* A rectangle without its identity, and the neighbours of the element e
\* of kind `kind` without theirs: every other unit and every other block.
Geometry(e) == [x |-> e.x, y |-> e.y, width |-> e.width, height |-> e.height]
Neighbours(kind, e) == {Geometry(o.r) : o \in {p \in Placed : p.kind # kind \/ p.r.id # e.id}}

\* Inside the room and clear of every neighbour.
Clear(x, y, w, h, others) ==
    /\ isInsideRoom(x, y, w, h, room.width, room.height, room.shape, room.cw, room.ch, room.corner)
    /\ \A o \in others : ~rectanglesOverlap(x, y, w, h, o.x, o.y, o.width, o.height)

\* One resolver for both kinds: it is given geometry only.
SharedDrag(g, grab, ptr, cur, others) ==
    LET px == Max(0, Min(room.width - g.width, ptr[1] - grab[1]))
        py == Max(0, Min(room.height - g.height, ptr[2] - grab[2]))
        ok(x, y) == Clear(x, y, g.width, g.height, others)
    IN IF ok(px, py) THEN <<px, py>>
       ELSE <<IF ok(px, cur[2]) THEN px ELSE cur[1],
              IF ok(cur[1], py) THEN py ELSE cur[2]>>

SharedResize(g, ptr, cur, others) ==
    LET w == Min(Nearest01(Max(500, ptr[1] - g.x)), room.width - g.x)
        h == Min(Nearest01(Max(500, ptr[2] - g.y)), room.height - g.y)
    IN IF Clear(g.x, g.y, w, h, others) THEN <<w, h>> ELSE cur

\* Where inside the rectangle the pointer holds it, in room millimetres.
GrabPoint == <<dragOffset.x \div scale, dragOffset.y \div scale>>

\* C22: units and blocks are treated symmetrically: what a drag tick or a
\* resize tick commits is the same function of the rectangle's geometry,
\* the pointer, the other rectangles (units and blocks alike) and the room
\* shape, whether the rectangle is a unit or a block.
C22_UnitsAndBlocksSymmetric ==
    tick.op \in {"drag", "resize"} =>
        \A e \in Ticked :
            tick.out = IF tick.op = "drag"
                       THEN SharedDrag(Geometry(e), GrabPoint, tick.ptr, tick.cur, Neighbours(TickKind, e))
                       ELSE SharedResize(Geometry(e), tick.ptr, tick.cur, Neighbours(TickKind, e))

\* A block is dragged onto a unit and stopped by it: without the units it
\* would have moved to where the pointer took it.
C22_Witness ==
    /\ tick.op = "drag" /\ tick.kind = "block"
    /\ tick.out # tick.prop
    /\ \E e \in Ticked :
          Clear(tick.prop[1], tick.prop[2], e.width, e.height, {Geometry(b) : b \in {o \in blocks : o.id # e.id}})

----------------------------------------------------------------------------
(* Roles and protected routes *)

\* viewer < editor < admin
Rank(r) == CHOOSE n \in 1..3 : <<"viewer", "editor", "admin">>[n] = r

\* C23: role checks follow the hierarchy viewer < editor < admin: hasRole(r)
\* is true iff a user is present and the rank of the user's role is at least
\* the rank of r; canEdit is true exactly for editors and admins, isAdmin
\* exactly for admins, both are false without a user, and isAdmin implies
\* canEdit.
C23_RoleHierarchy ==
    /\ \A r \in Accounts : hasRole(r) = (role # "none" /\ Rank(role) >= Rank(r))
    /\ canEdit = (role \in {"editor", "admin"})
    /\ isAdmin = (role = "admin")
    /\ role = "none" => ~canEdit /\ ~isAdmin
    /\ isAdmin => canEdit

\* An editor is logged in: canEdit is true and isAdmin is false.
C23_Witness == role = "editor" /\ token = "editor" /\ canEdit /\ ~isAdmin /\ ~isLoading /\ requests = <<>> /\ ~loggedOut

\* C24: ProtectedRoute renders its children only when isLoading is false,
\* token and user are non-null and (for requireAdmin) the user is an
\* admin; while loading it renders neither children nor a redirect; an
\* unauthenticated visitor is redirected to the login path and a non-admin
\* on an admin route to "/"; after logout the children are not rendered
\* until a new login.
C24_ProtectedContentGuarded ==
    \A requireAdmin \in BOOLEAN :
        /\ ProtectedRoute(requireAdmin) = "children" =>
              /\ ~isLoading /\ token # "none" /\ role # "none"
              /\ requireAdmin => role = "admin"
        /\ isLoading => ProtectedRoute(requireAdmin) = "loading"
        /\ (~isLoading /\ (token = "none" \/ role = "none")) => ProtectedRoute(requireAdmin) = "redirectTo"
        /\ (~isLoading /\ token # "none" /\ role \in {"viewer", "editor"}) => ProtectedRoute(TRUE) = "/"
        /\ loggedOut => ProtectedRoute(requireAdmin) # "children"

----------------------------------------------------------------------------
(* Gestures and the edit role *)

\* C26: in a session with no user or with a viewer, no mouse-down, move
\* or up on units, blocks, resize handles or the door enters a dragging
\* state or calls a move-end, resize or door-move-end callback.
C26_NoGestureWithoutEditRole ==
    role \in {"none", "viewer"} =>
        /\ dragging = NoDrag
        /\ localPosition = NoPosition /\ localSize = NoSize
        /\ localDoorWall = "none" /\ localDoorPosition = NoDoorPosition
        /\ gestures = 0 /\ commits = 0

\* The canvas of a viewer, showing a unit, a block and a door to press on.
C26_Witness ==
    /\ role = "viewer" /\ ~canEdit
    /\ units # {} /\ blocks # {} /\ door.wall # "none"
    /\ dragging = NoDrag /\ commits = 0

----------------------------------------------------------------------------
(* Frame conditions of a tick *)

\* A step of handleMouseMove inside a gesture.
TickStep == dragging.type # "none" /\ dragging' = dragging /\ tick' # NoTick

SamePlace(a, b) == a.x = b.x /\ a.y = b.y
SameSize(a, b) == a.width = b.width /\ a.height = b.height

\* What a tick may change of the rectangle e, drawn as `before` and then
\* as `after`: the place if e is being dragged, the size if e is being
\* resized, nothing otherwise.
FrameOfRect(kind, e, before, after) ==
    /\ (dragging.type = kind /\ dragging.id = e.id) \/ SamePlace(before, after)
    /\ (dragging.type = "resize-" \o kind /\ dragging.id = e.id) \/ SameSize(before, after)

\* C25: a drag tick changes at most the position of the dragged rectangle
\* and no width or height; a resize tick changes at most the size of the
\* resized rectangle and no position; no tick changes another unit or
\* block, the room shape or, outside a door drag, the door.
C25_TickFrame ==
    [][TickStep =>
          /\ UNCHANGED <<room, units, blocks, door>>
          /\ \A u \in units : FrameOfRect("unit", u, displayUnit(u), displayUnit(u)')
          /\ \A b \in blocks : FrameOfRect("block", b, displayBlock(b), displayBlock(b)')
          /\ dragging.type = "door" \/ displayDoor' = displayDoor]_vars

\* A drag tick has moved the dragged unit on the canvas, next to a block
\* and a door that stayed.
C25_Witness ==
    /\ tick.op = "drag" /\ tick.kind = "unit"
    /\ \E u \in units : u.id = tick.id /\ ~SamePlace(displayUnit(u), u)
    /\ blocks # {} /\ door.wall # "none"

----------------------------------------------------------------------------
(* Drawn and enforced room region *)

RegionCalled == call.fn = "roomRegion"

\* The vertices of the drawn path and the corners of its bounding box.
PathVertices == {call.path[i] : i \in 1..Len(call.path)}
BoxCorners == {<<bx, by>> : bx \in {0, call.room.width * call.scale}, by \in {0, call.room.height * call.scale}}

\* The path is drawn with a notch: a bounding-box corner is missing from
\* it, and a vertex lies inside the box.
DrawnNotched == BoxCorners \ PathVertices # {}
MissingBoxCorner == CHOOSE c \in BoxCorners : c \notin PathVertices
InnerVertex == CHOOSE v \in PathVertices : v[1] \notin {0, call.room.width * call.scale} /\ v[2] \notin {0, call.room.height * call.scale}

\* The rectangle of the call, in SVG units, reaches into the drawn notch.
InDrawnNotch ==
    LET e == call.rect
        sc == call.scale
        nx1 == Min(MissingBoxCorner[1], InnerVertex[1])
        nx2 == Max(MissingBoxCorner[1], InnerVertex[1])
        ny1 == Min(MissingBoxCorner[2], InnerVertex[2])
        ny2 == Max(MissingBoxCorner[2], InnerVertex[2])
    IN /\ e.x * sc < nx2 /\ (e.x + e.width) * sc > nx1
       /\ e.y * sc < ny2 /\ (e.y + e.height) * sc > ny1

\* C27: for every shape configuration, the region getRoomPath draws is
\* the region isInsideRoom enforces: a rectangle is accepted iff it is in
\* the bounding box and outside the notch of the drawn path, and the Door
\* component counts the room as an L-shape iff the path is drawn notched.
C27_DrawnRegionIsEnforced ==
    RegionCalled =>
        /\ call.ret = (InBox(call.room, call.rect) /\ ~(DrawnNotched /\ InDrawnNotch))
        /\ call.isLShape = DrawnNotched

----------------------------------------------------------------------------
(* Gestures interleaved with the refetch *)

\* Nothing is in flight and no gesture is active.
AllRefreshed == requests = <<>> /\ dragging.type = "none"

\* C28: for any interleaving of gesture-end commits with the update and
\* refetch of the room, also when a second gesture on another rectangle
\* starts before the refreshed room has arrived, every tick validates
\* against what earlier gestures committed: once all refreshes are
\* complete the room contains no overlapping rectangles.
C28_NoOverlapAfterRefresh == AllRefreshed => LayoutValid

\* C29: rectanglesOverlap is symmetric: exchanging the two rectangles
\* gives the same answer.
C29_OverlapSymmetric ==
    call.fn = "rectanglesOverlap" =>
        call.ret = rectanglesOverlap(call.b.x, call.b.y, call.b.width, call.b.height,
                                     call.a.x, call.a.y, call.a.width, call.a.height)

\* A call with two different rectangles that meet by no more than the
\* tolerance along x, where a one-sided tolerance would tell them apart.
C29_Witness ==
    /\ call.fn = "rectanglesOverlap"
    /\ call.a.width # call.b.width
    /\ call.a.x + call.a.width - call.b.x \in 1..tolerance
    /\ call.a.y + call.a.height - call.b.y > tolerance
    /\ call.b.y + call.b.height - call.a.y > tolerance
    /\ call.ret = FALSE

----------------------------------------------------------------------------
(* The minimum size of a resize *)

\* C30: for a rectangle of any initial size lying inside the room's
\* bounding box, after any sequence of resize ticks the width and height
\* held locally are each at least 0.5: the floor survives the cap at the
\* bounding box and the revert to the last accepted size.
C30_MinimumSurvivesCapAndRevert ==
    tick.op = "resize" => localSize.width >= minSize /\ localSize.height >= minSize

====
